---- MODULE Spec2Model ----
(***************************************************************************)
(* Model of the content-generation pipeline: the Orchestrator's seven      *)
(* stages over the shared pipeline state (orchestrator.py), the            *)
(* ProductParserAgent normalizer (agents/product_parser.py) and the        *)
(* LLM-backed agents' call / parse / validate paths (agents/*.py), and    *)
(* the comparison logic block (logic_blocks/comparison.py).                *)
(*                                                                         *)
(* Representation.                                                         *)
(*   - Python None is NULL.                                                *)
(*   - A Python str is a sequence of one-character strings.                *)
(*   - A float is an integer number of hundredths (29.99 is 2999); the     *)
(*     inputs of the model carry at most two fraction digits.              *)
(*   - A value whose Python type matters (raw JSON input, decoded LLM      *)
(*     answers) is a tagged record [t |-> type, v |-> value].              *)
(*   - An operation that can raise returns [ok, err, value]: ok = FALSE    *)
(*     means it raised the exception whose message is err.                 *)
(***************************************************************************)
EXTENDS Integers, Sequences, FiniteSets, TLC

\* a record, so that it compares (unequal) with every record the program stores
NULL == [none |-> TRUE]

Ok(v) == [ok |-> TRUE, err |-> "", value |-> v]
Raised(e) == [ok |-> FALSE, err |-> e, value |-> NULL]

Str(s) == [t |-> "str", v |-> s]
Arr(a) == [t |-> "arr", v |-> a]
Num(n) == [t |-> "num", v |-> n]
Obj(d) == [t |-> "obj", v |-> d]

(***************************************************************************)
(* Text helpers (Python str methods used by the agents)                    *)
(***************************************************************************)
Digits == <<"0", "1", "2", "3", "4", "5", "6", "7", "8", "9">>
UpperCase == <<"A", "B", "C", "D", "E", "F", "G", "H", "I", "J", "K", "L", "M",
               "N", "O", "P", "Q", "R", "S", "T", "U", "V", "W", "X", "Y", "Z">>
LowerCase == <<"a", "b", "c", "d", "e", "f", "g", "h", "i", "j", "k", "l", "m",
               "n", "o", "p", "q", "r", "s", "t", "u", "v", "w", "x", "y", "z">>
Whitespace == {" ", "\t", "\n"}

Range(s) == {s[i] : i \in DOMAIN s}
IsDigit(c) == c \in Range(Digits)
DigitValue(c) == (CHOOSE i \in DOMAIN Digits : Digits[i] = c) - 1

\* str.lower()
lower(s) ==
    LET LowerChar(c) ==
            IF c \in Range(UpperCase)
            THEN LowerCase[CHOOSE i \in DOMAIN UpperCase : UpperCase[i] = c]
            ELSE c
    IN [i \in DOMAIN s |-> LowerChar(s[i])]

RECURSIVE lstrip(_, _)
lstrip(s, chars) ==
    IF s # <<>> /\ Head(s) \in chars THEN lstrip(Tail(s), chars) ELSE s

RECURSIVE rstrip(_, _)
rstrip(s, chars) ==
    IF s # <<>> /\ s[Len(s)] \in chars
    THEN rstrip(SubSeq(s, 1, Len(s) - 1), chars)
    ELSE s

\* str.strip() / str.strip(chars)
strip_chars(s, chars) == rstrip(lstrip(s, chars), chars)
strip(s) == strip_chars(s, Whitespace)

\* the items of s that satisfy keep, in order
RECURSIVE RemoveChars(_, _)
RemoveChars(s, drop) ==
    IF s = <<>> THEN <<>>
    ELSE IF Head(s) \in drop THEN RemoveChars(Tail(s), drop)
    ELSE <<Head(s)>> \o RemoveChars(Tail(s), drop)

\* str.split(sep) for a one-character separator
RECURSIVE split(_, _)
split(s, sep) ==
    IF \A i \in DOMAIN s : s[i] # sep THEN <<s>>
    ELSE LET p == CHOOSE i \in DOMAIN s :
                      s[i] = sep /\ \A j \in 1..(i - 1) : s[j] # sep
         IN <<SubSeq(s, 1, p - 1)>> \o split(SubSeq(s, p + 1, Len(s)), sep)

(***************************************************************************)
(* ProductParserAgent (agents/product_parser.py), schemas (config.py)      *)
(***************************************************************************)
\* the character U+20B9 (Indian rupee sign)
Rupee == "Rupee"
CurrencyAndSeparators == {Rupee, "$", "EUR", "GBP", ","} \cup Whitespace

INPUT_REQUIRED == {"product_name", "concentration", "skin_type", "key_ingredients",
                   "benefits", "how_to_use", "side_effects", "price"}
INPUT_STRING_KEYS == {"product_name", "concentration", "how_to_use", "side_effects",
                      "price"}
INPUT_ARRAY_KEYS == {"skin_type", "key_ingredients", "benefits"}
PARSED_REQUIRED == {"id", "name", "concentration", "skin_type", "ingredients",
                    "benefits", "usage", "side_effects", "price"}

IsStringArray(x) == x.t = "arr" /\ \A i \in DOMAIN x.v : x.v[i].t = "str"

\* jsonschema.validate(instance, PRODUCT_INPUT_SCHEMA)
PRODUCT_INPUT_SCHEMA(data) ==
    /\ data.t = "obj"
    /\ INPUT_REQUIRED \subseteq DOMAIN data.v
    /\ \A k \in INPUT_STRING_KEYS : data.v[k].t = "str"
    /\ \A k \in INPUT_ARRAY_KEYS : IsStringArray(data.v[k])

IsText(x) == x \in Seq(STRING)

\* jsonschema.validate(instance, PARSED_PRODUCT_SCHEMA)
PARSED_PRODUCT_SCHEMA(p) ==
    /\ PARSED_REQUIRED \subseteq DOMAIN p
    /\ \A k \in {"id", "name", "usage", "side_effects"} : IsText(p[k])
    /\ \A k \in {"concentration", "price"} : p[k] \in Int
    /\ \A k \in {"skin_type", "ingredients", "benefits"} :
           \A i \in DOMAIN p[k] : IsText(p[k][i])

\* mutant of _validate_input: only the required keys are checked, not the types
_validate_input_keys_only(data) ==
    IF data.t = "obj" /\ INPUT_REQUIRED \subseteq DOMAIN data.v
    THEN Ok(data)
    ELSE Raised("Invalid input data")

_validate_input(data) ==
    IF PRODUCT_INPUT_SCHEMA(data) THEN Ok(data) ELSE Raised("Invalid input data")

_validate_output(data) ==
    IF PARSED_PRODUCT_SCHEMA(data) THEN Ok(data) ELSE Raised("Invalid output data")

\* re.sub(r'[^a-z0-9]+', '-', s): inRun says the previous character was replaced
RECURSIVE SubNonAlnum(_, _)
SubNonAlnum(s, inRun) ==
    IF s = <<>> THEN <<>>
    ELSE IF Head(s) \in Range(LowerCase) \/ IsDigit(Head(s)) THEN <<Head(s)>> \o SubNonAlnum(Tail(s), FALSE)
    ELSE IF inRun THEN SubNonAlnum(Tail(s), TRUE)
    ELSE <<"-">> \o SubNonAlnum(Tail(s), TRUE)

\* short_uuid is str(uuid.uuid4())[:8], drawn by the caller
_generate_id(name, short_uuid) ==
    LET slug == strip_chars(SubNonAlnum(lower(name), FALSE), {"-"})
    IN slug \o <<"-">> \o short_uuid

\* the digits of s from position p on, up to the first non-digit
RECURSIVE DigitRun(_, _)
DigitRun(s, p) ==
    IF p <= Len(s) /\ IsDigit(s[p]) THEN <<s[p]>> \o DigitRun(s, p + 1) ELSE <<>>

RECURSIVE DigitsToInt(_)
DigitsToInt(ds) ==
    IF ds = <<>> THEN 0
    ELSE 10 * DigitsToInt(SubSeq(ds, 1, Len(ds) - 1)) + DigitValue(ds[Len(ds)])

\* float() of "<whole>.<frac>" in hundredths (frac has at most two digits)
ToHundredths(whole, frac) ==
    100 * DigitsToInt(whole)
    + (IF Len(frac) >= 1 THEN 10 * DigitValue(frac[1]) ELSE 0)
    + (IF Len(frac) >= 2 THEN DigitValue(frac[2]) ELSE 0)

\* re.search(r'(\d+(?:\.\d+)?)', s), then float(match.group(1)); 0.0 if no match
FirstNumber(s) ==
    IF \A i \in DOMAIN s : ~IsDigit(s[i]) THEN 0
    ELSE LET p == CHOOSE i \in DOMAIN s :
                      IsDigit(s[i]) /\ \A j \in 1..(i - 1) : ~IsDigit(s[j])
             whole == DigitRun(s, p)
             q == p + Len(whole)
             frac == IF q <= Len(s) /\ s[q] = "." THEN DigitRun(s, q + 1) ELSE <<>>
         IN ToHundredths(whole, frac)

_extract_concentration(value) ==
    IF value.t = "num" THEN value.v ELSE FirstNumber(value.v)

\* mutant of _extract_price: the string is searched as it is
_extract_price_unstripped(value) ==
    IF value.t = "num" THEN value.v ELSE FirstNumber(value.v)

_extract_price(value) ==
    IF value.t = "num" THEN value.v
    ELSE FirstNumber(RemoveChars(value.v, CurrencyAndSeparators))

\* mutant of StripKeepNonEmpty: the items kept are not stripped
RECURSIVE KeepNonEmpty(_)
KeepNonEmpty(items) ==
    IF items = <<>> THEN <<>>
    ELSE IF strip(Head(items)) # <<>>
    THEN <<Head(items)>> \o KeepNonEmpty(Tail(items))
    ELSE KeepNonEmpty(Tail(items))

\* [item.strip() for item in items if item and str(item).strip()]
RECURSIVE StripKeepNonEmpty(_)
StripKeepNonEmpty(items) ==
    IF items = <<>> THEN <<>>
    ELSE IF strip(Head(items)) # <<>>
    THEN <<strip(Head(items))>> \o StripKeepNonEmpty(Tail(items))
    ELSE StripKeepNonEmpty(Tail(items))

\* mutant of _normalize_array: a string is taken as one item
_normalize_array_unsplit(value) ==
    IF value.t = "arr" THEN StripKeepNonEmpty([i \in DOMAIN value.v |-> value.v[i].v])
    ELSE IF value.t = "str" THEN StripKeepNonEmpty(<<value.v>>)
    ELSE <<>>

_normalize_array(value) ==
    IF value.t = "arr" THEN StripKeepNonEmpty([i \in DOMAIN value.v |-> value.v[i].v])
    ELSE IF value.t = "str" THEN StripKeepNonEmpty(split(value.v, ","))
    ELSE <<>>

\* raw.get(key, default)
Get(d, key, default) == IF key \in DOMAIN d THEN d[key] ELSE default

_normalize(raw, short_uuid) ==
    [id |-> _generate_id(Get(raw, "product_name", Str(<<>>)).v, short_uuid),
     name |-> strip(Get(raw, "product_name", Str(<<>>)).v),
     concentration |-> _extract_concentration(Get(raw, "concentration", Str(<<>>))),
     skin_type |-> _normalize_array(Get(raw, "skin_type", Arr(<<>>))),
     ingredients |-> _normalize_array(Get(raw, "key_ingredients", Arr(<<>>))),
     benefits |-> _normalize_array(Get(raw, "benefits", Arr(<<>>))),
     usage |-> strip(Get(raw, "how_to_use", Str(<<>>)).v),
     side_effects |-> strip(Get(raw, "side_effects", Str(<<>>)).v),
     price |-> _extract_price(Get(raw, "price", Str(<<>>)))]

(***************************************************************************)
(* The input files a run can be pointed at                                 *)
(***************************************************************************)
SerumRaw ==
    [product_name |-> Str(<<" ", "G", "l", "o", "w", " ", "C", " ">>),
     concentration |-> Str(<<"1", "0", "%", " ", "C">>),
     skin_type |-> Arr(<<Str(<<" ", "O", "i", "l", "y">>), Str(<<" ">>),
                         Str(<<"D", "r", "y">>)>>),
     key_ingredients |-> Arr(<<Str(<<"V", "i", "t", " ", "C">>)>>),
     benefits |-> Arr(<<Str(<<"G", "l", "o", "w">>), Str(<<"G", "l", "o", "w">>)>>),
     how_to_use |-> Str(<<"A", "M", " ">>),
     side_effects |-> Str(<<>>),
     price |-> Str(<<Rupee, "1", ",", "2", "9", "9">>)]

\* the same product without one of its keys
Without(key) == [k \in DOMAIN SerumRaw \ {key} |-> SerumRaw[k]]

\* the same product with skin_type given as a comma-separated string
CommaSkinRaw == [SerumRaw EXCEPT !.skin_type = Str(<<"O", "i", "l", "y", ",", "D", "r", "y">>)]

\* the same product with its price given as a number
NumberPriceRaw == [SerumRaw EXCEPT !.price = Num(69900)]

\* the files that lack one required key
MissingKeyFiles ==
    [product_name |-> "input/no_product_name.json",
     concentration |-> "input/no_concentration.json",
     skin_type |-> "input/no_skin_type.json",
     key_ingredients |-> "input/no_key_ingredients.json",
     benefits |-> "input/no_benefits.json",
     how_to_use |-> "input/no_how_to_use.json",
     side_effects |-> "input/no_side_effects.json",
     price |-> "input/no_price.json"]

InputPaths == {"input/product.json", "input/missing.json", "input/comma_skin.json",
               "input/number_price.json", "input/list.json"}
              \cup Range(MissingKeyFiles)
FileSystem(path) ==
    CASE path = "input/product.json" -> Obj(SerumRaw)
      [] path = "input/comma_skin.json" -> Obj(CommaSkinRaw)
      [] path = "input/number_price.json" -> Obj(NumberPriceRaw)
      [] path = "input/list.json" -> Arr(<<Obj(SerumRaw)>>)
      [] path \in Range(MissingKeyFiles) ->
             Obj(Without(CHOOSE k \in DOMAIN MissingKeyFiles : MissingKeyFiles[k] = path))
      [] OTHER -> [t |-> "missing", v |-> NULL]

\* the values str(uuid.uuid4())[:8] takes in the model
ShortUuids == {<<"0", "f", "3", "a", "9", "c", "1", "e">>,
               <<"7", "b", "2", "d", "4", "4", "a", "0">>}

_load_data(input_data) ==
    IF FileSystem(input_data).t = "missing" THEN Raised("Input file not found")
    ELSE Ok(FileSystem(input_data))

\* ProductParserAgent.parse once the raw data is loaded: validate input,
\* normalize, validate output
parse_data(raw_data, short_uuid) ==
    LET checked == _validate_input(raw_data)
    IN IF ~checked.ok THEN checked
       ELSE _validate_output(_normalize(raw_data.v, short_uuid))

\* ProductParserAgent.parse of a file path
parse(input_data, short_uuid) ==
    LET loaded == _load_data(input_data)
    IN IF ~loaded.ok THEN loaded ELSE parse_data(loaded.value, short_uuid)

(***************************************************************************)
(* LLM answers and the agents' _parse_response                             *)
(*                                                                         *)
(* An answer text is a sequence of tokens: a code fence (three backticks), *)
(* the tag "json", whitespace, one JSON document (with the value it        *)
(* decodes to), or text that is no JSON.                                   *)
(***************************************************************************)
Fence == [tok |-> "fence", val |-> NULL]
JsonTag == [tok |-> "tag", val |-> NULL]
Space == [tok |-> "ws", val |-> NULL]
Junk == [tok |-> "junk", val |-> NULL]
Doc(value) == [tok |-> "doc", val |-> value]

Plain(value) == <<Doc(value)>>
Fenced(value) == <<Fence, JsonTag, Space, Doc(value), Space, Fence>>
NotJson == <<Junk, Doc(Arr(<<>>))>>

\* text.strip() on tokens
strip_tokens(text) == strip_chars(text, {Space})

StartsWith(text, prefix) ==
    Len(text) >= Len(prefix) /\ SubSeq(text, 1, Len(prefix)) = prefix
EndsWith(text, suffix) ==
    Len(text) >= Len(suffix)
    /\ SubSeq(text, Len(text) - Len(suffix) + 1, Len(text)) = suffix
DropFirst(text, n) == SubSeq(text, n + 1, Len(text))
DropLast(text, n) == SubSeq(text, 1, Len(text) - n)

\* mutant of StripFences: only an opening fence tagged "json" is removed
StripFences_tagged_only(response) ==
    LET c0 == strip_tokens(response)
        c1 == IF StartsWith(c0, <<Fence, JsonTag>>) THEN DropFirst(c0, 2) ELSE c0
        c3 == IF EndsWith(c1, <<Fence>>) THEN DropLast(c1, 1) ELSE c1
    IN strip_tokens(c3)

\* the three "if cleaned.startswith / endswith" statements, then cleaned.strip()
StripFences(response) ==
    LET c0 == strip_tokens(response)
        c1 == IF StartsWith(c0, <<Fence, JsonTag>>) THEN DropFirst(c0, 2) ELSE c0
        c2 == IF StartsWith(c1, <<Fence>>) THEN DropFirst(c1, 1) ELSE c1
        c3 == IF EndsWith(c2, <<Fence>>) THEN DropLast(c2, 1) ELSE c2
    IN strip_tokens(c3)

\* json.loads: exactly one JSON document, else JSONDecodeError
json_loads(text) ==
    IF Len(text) = 1 /\ text[1].tok = "doc" THEN Ok(text[1].val)
    ELSE Raised("JSONDecodeError")

\* dict.get on a decoded JSON value; a non-object has no attribute 'get'
HasGet(value) == value.t = "obj"
NoGet == Raised("AttributeError: object has no attribute 'get'")

\* len() of a decoded JSON value: numbers have none
HasLen(value) == value.t \in {"arr", "str", "obj"}
PyLen(value) == IF value.t = "obj" THEN Cardinality(DOMAIN value.v) ELSE Len(value.v)

\* self.model.generate_content(prompt): the service answers with a text or raises
ServiceError == [raises |-> TRUE, text |-> <<>>]
Answer(text) == [raises |-> FALSE, text |-> text]

\* _call_llm (the same in the four agents)
_call_llm(reply) ==
    IF reply.raises THEN Raised("LLM call failed") ELSE Ok(reply.text)

(***************************************************************************)
(* QuestionGeneratorAgent (agents/question_generator.py)                   *)
(***************************************************************************)
QUESTION_CATEGORIES == <<"informational", "usage", "safety", "purchase", "comparison">>
TOTAL_MIN_QUESTIONS == 15
MIN_FAQ_ITEMS == 5

\* sum(f(x) for x in S)
RECURSIVE SumOver(_, _)
SumOver(S, f) ==
    IF S = {} THEN 0
    ELSE LET x == CHOOSE y \in S : TRUE IN f[x] + SumOver(S \ {x}, f)

QuestionGeneratorAgent_parse_response(response) ==
    LET data == json_loads(StripFences(response))
    IN IF ~data.ok THEN Raised("Failed to parse LLM response as JSON")
       ELSE IF ~HasGet(data.value) THEN NoGet
       ELSE Ok([c \in Range(QUESTION_CATEGORIES) |-> Get(data.value.v, c, Arr(<<>>))])

\* sum(len(q) for q in questions.values())
get_total_count(questions) ==
    SumOver(DOMAIN questions, [c \in DOMAIN questions |-> PyLen(questions[c])])

\* mutant of _validate_questions: the total is compared with the FAQ minimum
_validate_questions_faq_minimum(questions) ==
    IF \E c \in DOMAIN questions : ~HasLen(questions[c])
    THEN Raised("TypeError: object has no len()")
    ELSE IF get_total_count(questions) < MIN_FAQ_ITEMS
    THEN Raised("Insufficient questions generated")
    ELSE Ok(questions)

_validate_questions(questions) ==
    IF \E c \in DOMAIN questions : ~HasLen(questions[c])
    THEN Raised("TypeError: object has no len()")
    ELSE IF get_total_count(questions) < TOTAL_MIN_QUESTIONS
    THEN Raised("Insufficient questions generated")
    ELSE Ok(questions)

\* QuestionGeneratorAgent.generate, from the service's reply on
QuestionGeneratorAgent_generate(product, reply) ==
    LET response == _call_llm(reply)
    IN IF ~response.ok THEN response
       ELSE LET questions == QuestionGeneratorAgent_parse_response(response.value)
            IN IF ~questions.ok THEN questions
               ELSE _validate_questions(questions.value)

(***************************************************************************)
(* ContentLogicAgent (agents/content_logic_agent.py, logic_blocks/)        *)
(* Each block keeps the fields it copies or counts from the product; the   *)
(* descriptive sentences the rule tables derive from them are left out.    *)
(***************************************************************************)
generate_benefits(product) ==
    [type |-> "benefits", count |-> Len(product.benefits),
     items |-> product.benefits, product_name |-> product.name]

generate_usage(product) ==
    [type |-> "usage", instructions |-> product.usage,
     suitable_for |-> product.skin_type, product_name |-> product.name]

generate_safety(product) ==
    [type |-> "safety", side_effects |-> product.side_effects,
     product_name |-> product.name]

generate_ingredients(product) ==
    [type |-> "ingredients", count |-> Len(product.ingredients),
     items |-> product.ingredients, concentration |-> product.concentration,
     product_name |-> product.name]

get_all_blocks(product) ==
    [benefits |-> generate_benefits(product),
     usage |-> generate_usage(product),
     safety |-> generate_safety(product),
     ingredients |-> generate_ingredients(product)]

(***************************************************************************)
(* FAQPageAgent (agents/faq_agent.py)                                      *)
(***************************************************************************)
category_priority == <<"informational", "usage", "safety", "purchase", "comparison">>

\* first pass: the first question of every category that has one
RECURSIVE FirstPass(_, _)
FirstPass(questions, i) ==
    IF i > Len(category_priority) THEN <<>>
    ELSE LET category == category_priority[i]
         IN (IF category \in DOMAIN questions /\ PyLen(questions[category]) > 0
             THEN <<[question |-> questions[category].v[1], category |-> category]>>
             ELSE <<>>)
            \o FirstPass(questions, i + 1)

\* mutant of FillFrom: the inner loop has no overflow limit
RECURSIVE FillFrom_uncapped(_, _, _)
FillFrom_uncapped(selected, rest, category) ==
    IF rest = <<>> THEN selected
    ELSE FillFrom_uncapped(Append(selected, [question |-> Head(rest),
                                             category |-> category]),
                           Tail(rest), category)

\* inner loop of the second pass: "for q in questions[category][1:]"
RECURSIVE FillFrom(_, _, _)
FillFrom(selected, rest, category) ==
    IF rest = <<>> \/ Len(selected) >= MIN_FAQ_ITEMS + 2 THEN selected
    ELSE FillFrom(Append(selected, [question |-> Head(rest), category |-> category]),
                  Tail(rest), category)

\* outer loop of the second pass: "for category in category_priority"
RECURSIVE SecondPass(_, _, _)
SecondPass(selected, questions, i) ==
    IF i > Len(category_priority) \/ Len(selected) >= MIN_FAQ_ITEMS THEN selected
    ELSE LET category == category_priority[i]
             rest == IF category \in DOMAIN questions /\ PyLen(questions[category]) > 0
                     THEN Tail(questions[category].v)
                     ELSE <<>>
         IN SecondPass(FillFrom(selected, rest, category), questions, i + 1)

\* mutant of _select_questions: the lists are drained first, the first question
\* of each category is added at the end
_select_questions_volume_first(questions) ==
    SecondPass(<<>>, questions, 1) \o FirstPass(questions, 1)

_select_questions(questions) == SecondPass(FirstPass(questions, 1), questions, 1)

FAQPageAgent_parse_response(response) ==
    LET data == json_loads(StripFences(response))
    IN IF ~data.ok THEN Raised("Failed to parse LLM response")
       ELSE IF ~HasGet(data.value) THEN NoGet
       ELSE Ok(Get(data.value.v, "faqs", Arr(<<>>)))

\* FAQPageAgent.generate, from the service's reply on
\* now is datetime.now(timezone.utc).isoformat() as read when the page is built
FAQPageAgent_generate(product, questions, reply, now) ==
    LET response == _call_llm(reply)
    IN IF ~response.ok THEN response
       ELSE LET faqs == FAQPageAgent_parse_response(response.value)
            IN IF ~faqs.ok THEN faqs
               ELSE IF ~HasLen(faqs.value) THEN Raised("TypeError: object has no len()")
               ELSE Ok([page_type |-> "faq",
                        product_name |-> product.name,
                        product_id |-> product.id,
                        generated_at |-> now,
                        total_faqs |-> PyLen(faqs.value),
                        faqs |-> faqs.value])

(***************************************************************************)
(* ProductPageAgent (agents/product_page_agent.py)                         *)
(***************************************************************************)
MinimalContent ==
    Obj([headline |-> Str(<<>>), description |-> Str(<<>>),
         ingredients_description |-> Str(<<>>), benefits_description |-> Str(<<>>),
         usage_tips |-> Arr(<<>>), precautions |-> Arr(<<>>)])

\* on JSONDecodeError this parser returns the minimal structure instead of raising
ProductPageAgent_parse_response(response) ==
    LET data == json_loads(StripFences(response))
    IN IF ~data.ok THEN Ok(MinimalContent) ELSE data

\* ProductPageAgent.generate, from the service's reply on
ProductPageAgent_generate(product, reply, now) ==
    LET response == _call_llm(reply)
    IN IF ~response.ok THEN response
       ELSE LET enhanced == ProductPageAgent_parse_response(response.value).value
            IN IF ~HasGet(enhanced) THEN NoGet
               ELSE Ok([page_type |-> "product",
                        product_id |-> product.id,
                        product_name |-> product.name,
                        generated_at |-> now,
                        headline |-> Get(enhanced.v, "headline", Str(product.name)),
                        description |-> Get(enhanced.v, "description", Str(<<>>)),
                        concentration |-> product.concentration,
                        skin_type |-> product.skin_type,
                        ingredients |-> product.ingredients,
                        benefits |-> product.benefits,
                        usage |-> product.usage,
                        side_effects |-> product.side_effects,
                        price |-> product.price])

(***************************************************************************)
(* ComparisonAgent (agents/comparison_agent.py)                            *)
(***************************************************************************)
ComparisonAgent_parse_response(response) ==
    LET data == json_loads(StripFences(response))
    IN IF ~data.ok THEN Raised("Failed to parse LLM response") ELSE data

\* float(text) for the plain decimal literals "<digits>" and "<digits>.<digits>";
\* every other text of the model is one float() rejects
PyFloat(text) ==
    LET t == strip(text)
        whole == DigitRun(t, 1)
        frac == IF Len(whole) < Len(t) /\ t[Len(whole) + 1] = "."
                THEN DigitRun(t, Len(whole) + 2)
                ELSE <<>>
    IN IF whole # <<>> /\ (Len(t) = Len(whole)
                           \/ (frac # <<>> /\ Len(t) = Len(whole) + 1 + Len(frac)))
       THEN Ok(ToHundredths(whole, frac))
       ELSE Raised("ValueError: could not convert string to float")

\* float(str(product_b.get("price", "0")).replace(rupee, "").replace(",", "") or 0)
PriceOfProductB(product_b) ==
    LET price == Get(product_b.v, "price", Str(<<"0">>))
    IN IF price.t = "num" THEN Ok(price.v)
       ELSE IF price.t # "str" THEN Raised("ValueError: could not convert string to float")
       ELSE LET text == RemoveChars(price.v, {Rupee, ","})
            IN IF text = <<>> THEN Ok(0) ELSE PyFloat(text)

_generate_recommendation(product_a, product_b) ==
    LET price_b == PriceOfProductB(product_b)
    IN IF ~price_b.ok THEN price_b
       ELSE Ok([best_for_value |-> IF product_a.price <= price_b.value
                                   THEN Str(product_a.name)
                                   ELSE Get(product_b.v, "name", Str(<<>>))])

\* ComparisonAgent._generate_product_b, from the service's reply on
_generate_product_b(product_a, reply) ==
    LET response == _call_llm(reply)
    IN IF ~response.ok THEN response
       ELSE ComparisonAgent_parse_response(response.value)

\* ComparisonAgent._generate_comparison, from the service's reply on, and the
\* rest of ComparisonAgent.generate
ComparisonAgent_generate(product_a, product_b, reply, now) ==
    LET response == _call_llm(reply)
    IN IF ~response.ok THEN response
       ELSE LET comparison == ComparisonAgent_parse_response(response.value)
            IN IF ~comparison.ok THEN comparison
               ELSE LET recommendation == _generate_recommendation(product_a, product_b)
                    IN IF ~recommendation.ok THEN recommendation
                       ELSE Ok([page_type |-> "comparison",
                                generated_at |-> now,
                                product_a |-> [id |-> product_a.id,
                                               name |-> product_a.name,
                                               concentration |-> product_a.concentration,
                                               ingredients |-> product_a.ingredients,
                                               benefits |-> product_a.benefits,
                                               skin_type |-> product_a.skin_type,
                                               price |-> product_a.price],
                                product_b |-> product_b,
                                comparison |-> comparison.value,
                                recommendation |-> recommendation.value])

(***************************************************************************)
(* TemplateEngineAgent (agents/template_engine_agent.py)                   *)
(***************************************************************************)
list_templates == <<"faq", "product", "comparison">>

(***************************************************************************)
(* The answers the LLM service gives in the model                          *)
(***************************************************************************)
QuestionsPerCategory == 3
FaqEntries == 5

\* the times datetime.now() gives when a page is built
Clock == {"2026-01-01T00:00:00+00:00", "2026-01-01T00:00:09+00:00"}

QuestionList(category, n) ==
    LET Initial == CASE category = "informational" -> "i"
                     [] category = "usage" -> "u"
                     [] category = "safety" -> "s"
                     [] category = "purchase" -> "p"
                     [] OTHER -> "c"
    IN Arr([i \in 1..n |-> Str(<<Initial, LowerCase[i]>>)])

\* QuestionsPerCategory questions in each of the five categories
FullQuestions ==
    Obj([c \in Range(QUESTION_CATEGORIES) |-> QuestionList(c, QuestionsPerCategory)])
\* one question fewer in each category
ShortQuestions ==
    Obj([c \in Range(QUESTION_CATEGORIES) |-> QuestionList(c, QuestionsPerCategory - 1)])
\* every question in one category, the other keys absent, one foreign key
SkewQuestions ==
    Obj([c \in {"informational", "other"} |->
            QuestionList(c, Len(QUESTION_CATEGORIES) * QuestionsPerCategory)])

QuestionReplies ==
    {ServiceError, Answer(NotJson), Answer(Plain(Arr(<<>>))),
     Answer(Fenced(FullQuestions)), Answer(Plain(ShortQuestions)),
     Answer(<<Space, Fence, Space, Doc(SkewQuestions), Space, Fence, Space>>)}

FaqAnswers(n) ==
    LET FaqItem(i) ==
            Obj([question |-> Str(<<"q", LowerCase[i]>>),
                 answer |-> Str(<<"a", LowerCase[i]>>), category |-> Str(<<"c">>)])
    IN Obj([faqs |-> Arr([i \in 1..n |-> FaqItem(i)])])
NoFaqsKey == Obj([answers |-> Arr(<<>>)])

FaqReplies ==
    {ServiceError, Answer(NotJson), Answer(Plain(Arr(<<>>))),
     Answer(Fenced(FaqAnswers(FaqEntries))), Answer(Plain(NoFaqsKey))}

Enhanced == Obj([headline |-> Str(<<"G", "l", "o", "w", "!">>),
                 description |-> Str(<<"S", "e", "r", "u", "m">>)])

ProductPageReplies ==
    {ServiceError, Answer(NotJson), Answer(Plain(Arr(<<>>))), Answer(Fenced(Enhanced))}

ProductB(price) ==
    Obj([id |-> Str(<<"b">>), name |-> Str(<<"L", "u", "m", "a">>),
         ingredients |-> Arr(<<Str(<<"Z", "i", "n", "c">>)>>),
         benefits |-> Arr(<<Str(<<"C", "a", "l", "m">>)>>),
         price |-> price, is_fictional |-> [t |-> "bool", v |-> TRUE]])

ProductBReplies ==
    {ServiceError, Answer(NotJson), Answer(Plain(Arr(<<>>))),
     Answer(Fenced(ProductB(Str(<<Rupee, "5", "9", "9">>)))),
     Answer(Plain(ProductB(Str(<<"R", "s", " ", "5", "9", "9">>))))}

Analysis == Obj([ingredients |-> Str(<<"i">>), benefits |-> Str(<<"b">>),
                 price |-> Str(<<"p">>), overall |-> Str(<<"o">>)])

ComparisonReplies ==
    {ServiceError, Answer(NotJson), Answer(Plain(Arr(<<>>))), Answer(Fenced(Analysis))}

(***************************************************************************)
(* Orchestrator (orchestrator.py)                                          *)
(***************************************************************************)
VARIABLES
    pc,          \* "idle" (constructed), "stage" (in run, about to execute
                 \* stage_num), "llm" (blocked in generate_content), "returned"
    stage_num,   \* the stage being executed; WRITE stands for _write_outputs
    input_path,  \* run's argument
    state,       \* self.state
    product_b,   \* ComparisonAgent.generate's local between its two LLM calls
    result,      \* the dictionary run returned, NULL while it runs
    written,     \* the files _write_outputs wrote in this run, in order
    \* history of the current run
    started,     \* stage numbers in the order _execute_stage was entered
    finished,    \* stage numbers in the order their stage function returned
    assigned,    \* the assignments to self.state[...], as [stage, field]
    reads,       \* the reads of self.state[...] passed to an agent as input
    llm_calls,   \* the calls of generate_content: the stage, the prompt, whether
                 \* it raised, whether it answered and the text it answered
    raised_in,   \* the stage whose exception run caught, 0 if none
    \* outside run
    call         \* the last direct call of an agent's method (as the agents'
                 \* __main__ blocks make them): the method, its arguments, its outcome

vars == <<pc, stage_num, input_path, state, product_b, result, written,
          started, finished, assigned, reads, llm_calls, raised_in, call>>
pipeline == <<pc, stage_num, input_path, state, product_b, result, written,
              started, finished, assigned, reads, llm_calls, raised_in>>

Fields == {"raw_product", "parsed_product", "questions", "content_blocks",
           "faq_page", "product_page", "comparison_page"}
OUTPUT_FILES == [faq |-> "faq.json", product_page |-> "product_page.json",
                 comparison_page |-> "comparison_page.json"]
NumStages == 7
WRITE == NumStages + 1
NoCall == [fn |-> "none"]

\* Orchestrator.__init__
Init ==
    /\ pc = "idle"
    /\ stage_num = 0
    /\ input_path = ""
    /\ state = [f \in Fields |-> NULL]
    /\ product_b = NULL
    /\ result = NULL
    /\ written = <<>>
    /\ started = <<>>
    /\ finished = <<>>
    /\ assigned = <<>>
    /\ reads = {}
    /\ llm_calls = <<>>
    /\ raised_in = 0
    /\ call = NoCall

\* the stages that assigned field f so far in this run
WritersOf(f) == {assigned[i].stage : i \in {j \in DOMAIN assigned : assigned[j].field = f}}

\* self.state[f] evaluated as an argument of stage k's agent
ReadOf(k, f) == [stage |-> k, field |-> f, null |-> state[f] = NULL, writers |-> WritersOf(f)]

\* run is entered: a fresh call on this Orchestrator (nothing resets self.state)
run(path) ==
    /\ pc \in {"idle", "returned"}
    /\ pc' = "stage"
    /\ stage_num' = 1
    /\ input_path' = path
    /\ result' = NULL
    /\ written' = <<>>
    /\ started' = <<>>
    /\ finished' = <<>>
    /\ assigned' = <<>>
    /\ reads' = {}
    /\ llm_calls' = <<>>
    /\ raised_in' = 0
    /\ UNCHANGED <<state, product_b, call>>

\* mutant of Except: the error is recorded but the run goes on to the next stage
Except_continuing(e) ==
    /\ pc' = "stage"
    /\ stage_num' = stage_num + 1
    /\ result' = result
    /\ raised_in' = stage_num
    /\ product_b' = NULL
    /\ UNCHANGED input_path

\* "except Exception as e": the run returns the failure dictionary
Except(e) ==
    /\ pc' = "returned"
    /\ result' = [success |-> FALSE, error |-> e]
    /\ raised_in' = stage_num
    /\ product_b' = NULL
    /\ UNCHANGED <<stage_num, input_path>>

\* mutant of Return: the next stage is skipped
Return_skipping ==
    /\ pc' = "stage"
    /\ stage_num' = IF stage_num + 2 <= WRITE THEN stage_num + 2 ELSE WRITE
    /\ finished' = Append(finished, stage_num)
    /\ product_b' = NULL
    /\ UNCHANGED <<input_path, result, raised_in>>

\* the stage function returned: run goes on to the next _execute_stage
\* (to _write_outputs after the last)
Return ==
    /\ pc' = "stage"
    /\ stage_num' = stage_num + 1
    /\ finished' = Append(finished, stage_num)
    /\ product_b' = NULL
    /\ UNCHANGED <<input_path, result, raised_in>>

\* self.state[field] = value
Assign(field, value) ==
    /\ state' = [state EXCEPT ![field] = value]
    /\ assigned' = Append(assigned, [stage |-> stage_num, field |-> field])

\* _execute_stage(k, ...) is entered, the stage function reads its inputs
Enter(k, inputs) ==
    /\ pc = "stage"
    /\ stage_num = k
    /\ started' = Append(started, k)
    /\ reads' = reads \cup {ReadOf(k, f) : f \in inputs}
    /\ UNCHANGED call

NoneHasNoGet == "AttributeError: 'NoneType' object has no attribute 'get'"

\* mutant of _stage_parse_product: the record is stored under raw_product
_stage_parse_product_as_raw ==
    /\ Enter(1, {})
    /\ \E short_uuid \in ShortUuids :
           LET parsed == parse(input_path, short_uuid)
           IN IF parsed.ok
              THEN /\ Assign("raw_product", parsed.value)
                   /\ Return
                   /\ UNCHANGED <<written, llm_calls>>
              ELSE /\ Except(parsed.err)
                   /\ UNCHANGED <<state, written, finished, assigned, llm_calls>>

\* Stage 1
_stage_parse_product ==
    /\ Enter(1, {})
    /\ \E short_uuid \in ShortUuids :
           LET parsed == parse(input_path, short_uuid)
           IN IF parsed.ok
              THEN /\ Assign("parsed_product", parsed.value)
                   /\ Return
                   /\ UNCHANGED <<written, llm_calls>>
              ELSE /\ Except(parsed.err)
                   /\ UNCHANGED <<state, written, finished, assigned, llm_calls>>

\* _build_prompt(product): product.get(...) on each field
_build_prompt(product) ==
    IF product = NULL THEN Raised(NoneHasNoGet) ELSE Ok([product_id |-> product.id])

\* generate_content(prompt) is called by stage k and has not returned yet
Issued(k, prompt) ==
    [stage |-> k, prompt |-> prompt, raised |-> FALSE, answered |-> FALSE,
     response |-> <<>>]

\* mutant of CallLLM: the prompt is sent twice
CallLLM_twice(k, inputs, prompt) ==
    /\ Enter(k, inputs)
    /\ IF prompt.ok
       THEN /\ pc' = "llm"
            /\ llm_calls' = llm_calls \o <<[Issued(k, prompt.value) EXCEPT !.answered = TRUE],
                                           Issued(k, prompt.value)>>
            /\ UNCHANGED <<stage_num, input_path, product_b, result, raised_in>>
       ELSE /\ Except(prompt.err)
            /\ UNCHANGED llm_calls
    /\ UNCHANGED <<state, written, finished, assigned>>

\* an LLM-backed stage prepares its prompt and blocks in generate_content
CallLLM(k, inputs, prompt) ==
    /\ Enter(k, inputs)
    /\ IF prompt.ok
       THEN /\ pc' = "llm"
            /\ llm_calls' = Append(llm_calls, Issued(k, prompt.value))
            /\ UNCHANGED <<stage_num, input_path, product_b, result, raised_in>>
       ELSE /\ Except(prompt.err)
            /\ UNCHANGED llm_calls
    /\ UNCHANGED <<state, written, finished, assigned>>

\* generate_content returned or raised for the call in flight
Replied(k) ==
    /\ pc = "llm"
    /\ stage_num = k
    /\ UNCHANGED <<started, reads, written, call>>

Noted(reply) ==
    [llm_calls EXCEPT ![Len(llm_calls)].raised = reply.raises,
                      ![Len(llm_calls)].answered = ~reply.raises,
                      ![Len(llm_calls)].response = reply.text]

\* the stage function ends: with an assignment and a return, or by raising
Finish(field, outcome) ==
    IF outcome.ok
    THEN /\ Assign(field, outcome.value)
         /\ Return
    ELSE /\ Except(outcome.err)
         /\ UNCHANGED <<state, finished, assigned>>

\* Stage 2
_stage_generate_questions ==
    CallLLM(2, {"parsed_product"}, _build_prompt(state.parsed_product))

\* mutant of questions_reply: a call that raised is issued again
questions_reply_retrying ==
    \E reply \in QuestionReplies :
        /\ Replied(2)
        /\ IF reply.raises
           THEN /\ llm_calls' = Append(Noted(reply),
                                       Issued(2, llm_calls[Len(llm_calls)].prompt))
                /\ UNCHANGED <<pc, stage_num, input_path, product_b, result, raised_in,
                               state, finished, assigned>>
           ELSE /\ llm_calls' = Noted(reply)
                /\ Finish("questions",
                          QuestionGeneratorAgent_generate(state.parsed_product, reply))

questions_reply ==
    \E reply \in QuestionReplies :
        /\ Replied(2)
        /\ llm_calls' = Noted(reply)
        /\ Finish("questions", QuestionGeneratorAgent_generate(state.parsed_product, reply))

\* Stage 3
_stage_prepare_content_blocks ==
    /\ Enter(3, {"parsed_product"})
    /\ Finish("content_blocks",
              IF state.parsed_product = NULL THEN Raised(NoneHasNoGet)
              ELSE Ok(get_all_blocks(state.parsed_product)))
    /\ UNCHANGED <<written, llm_calls>>

\* mutant of _stage_load_templates: the template names are stored in the state
_stage_load_templates_storing ==
    /\ Enter(4, {})
    /\ Assign("raw_product", [templates |-> list_templates])
    /\ Return
    /\ UNCHANGED <<written, llm_calls>>

\* Stage 4
_stage_load_templates ==
    /\ Enter(4, {})
    /\ Len(list_templates) >= 0
    /\ Return
    /\ UNCHANGED <<state, written, assigned, llm_calls>>

\* FAQPageAgent.generate up to the call: _select_questions, then _build_prompt
FAQPageAgent_build_prompt(product, questions) ==
    IF questions = NULL THEN Raised("TypeError: argument of type 'NoneType' is not iterable")
    ELSE IF product = NULL THEN Raised(NoneHasNoGet)
    ELSE Ok([product_id |-> product.id, questions |-> _select_questions(questions)])

\* Stage 5
_stage_generate_faq ==
    CallLLM(5, {"parsed_product", "questions"},
            FAQPageAgent_build_prompt(state.parsed_product, state.questions))

\* mutant of faq_reply: the content blocks are put on the page
faq_reply_with_blocks ==
    \E reply \in FaqReplies, now \in Clock :
        /\ Replied(5)
        /\ llm_calls' = Noted(reply)
        /\ LET outcome == FAQPageAgent_generate(state.parsed_product, state.questions,
                                                reply, now)
           IN Finish("faq_page",
                     IF outcome.ok
                     THEN Ok([page_type |-> "faq", generated_at |-> now,
                              product_name |-> outcome.value.product_name,
                              product_id |-> outcome.value.product_id,
                              total_faqs |-> outcome.value.total_faqs,
                              faqs |-> outcome.value.faqs,
                              blocks |-> state.content_blocks])
                     ELSE outcome)

faq_reply ==
    \E reply \in FaqReplies, now \in Clock :
        /\ Replied(5)
        /\ llm_calls' = Noted(reply)
        /\ Finish("faq_page",
                  FAQPageAgent_generate(state.parsed_product, state.questions, reply, now))

\* Stage 6
_stage_generate_product_page ==
    CallLLM(6, {"parsed_product"}, _build_prompt(state.parsed_product))

\* mutant of product_page_reply: the agent rewrites the price of the record it
\* was given
product_page_reply_mutating ==
    \E reply \in ProductPageReplies, now \in Clock :
        /\ Replied(6)
        /\ llm_calls' = Noted(reply)
        /\ LET outcome == ProductPageAgent_generate(state.parsed_product, reply, now)
           IN IF outcome.ok
              THEN /\ state' = [state EXCEPT !.product_page = outcome.value,
                                             !.parsed_product.price = 0]
                   /\ assigned' = Append(assigned, [stage |-> stage_num,
                                                    field |-> "product_page"])
                   /\ Return
              ELSE /\ Except(outcome.err)
                   /\ UNCHANGED <<state, finished, assigned>>

product_page_reply ==
    \E reply \in ProductPageReplies, now \in Clock :
        /\ Replied(6)
        /\ llm_calls' = Noted(reply)
        /\ Finish("product_page",
                  ProductPageAgent_generate(state.parsed_product, reply, now))

\* Stage 7: the first call asks for the fictional product B
_stage_generate_comparison ==
    CallLLM(7, {"parsed_product"}, _build_prompt(state.parsed_product))

\* mutant of product_b_reply: the page is begun in the state as soon as product B
\* arrived
product_b_reply_storing ==
    \E reply \in ProductBReplies :
        /\ Replied(7)
        /\ product_b = NULL
        /\ LET parsed == _generate_product_b(state.parsed_product, reply)
               prompt == IF ~parsed.ok THEN parsed
                         ELSE IF ~HasGet(parsed.value) THEN NoGet
                         ELSE Ok([product_id |-> state.parsed_product.id,
                                  product_b |-> parsed.value])
           IN IF prompt.ok
              THEN /\ product_b' = parsed.value
                   /\ llm_calls' = Append(Noted(reply), Issued(7, prompt.value))
                   /\ state' = [state EXCEPT !.comparison_page =
                                    [page_type |-> "comparison", product_b |-> parsed.value]]
                   /\ UNCHANGED <<pc, stage_num, input_path, result, raised_in>>
              ELSE /\ Except(prompt.err)
                   /\ llm_calls' = Noted(reply)
                   /\ UNCHANGED state
        /\ UNCHANGED <<finished, assigned>>

\* product B arrived: _generate_comparison builds its prompt from both products
\* and issues the second call
product_b_reply ==
    \E reply \in ProductBReplies :
        /\ Replied(7)
        /\ product_b = NULL
        /\ LET parsed == _generate_product_b(state.parsed_product, reply)
               prompt == IF ~parsed.ok THEN parsed
                         ELSE IF ~HasGet(parsed.value) THEN NoGet
                         ELSE Ok([product_id |-> state.parsed_product.id,
                                  product_b |-> parsed.value])
           IN IF prompt.ok
              THEN /\ product_b' = parsed.value
                   /\ llm_calls' = Append(Noted(reply), Issued(7, prompt.value))
                   /\ UNCHANGED <<pc, stage_num, input_path, result, raised_in>>
              ELSE /\ Except(prompt.err)
                   /\ llm_calls' = Noted(reply)
        /\ UNCHANGED <<state, finished, assigned>>

comparison_reply ==
    \E reply \in ComparisonReplies, now \in Clock :
        /\ Replied(7)
        /\ product_b # NULL
        /\ llm_calls' = Noted(reply)
        /\ Finish("comparison_page",
                  ComparisonAgent_generate(state.parsed_product, product_b, reply, now))

\* where _write_outputs can raise OSError: creating the directory, or opening
\* the n-th file
WriteFaults == {"none", "mkdir", "open 1", "open 2", "open 3"}

outputs ==
    <<[filename |-> OUTPUT_FILES.faq, data |-> state.faq_page],
      [filename |-> OUTPUT_FILES.product_page, data |-> state.product_page],
      [filename |-> OUTPUT_FILES.comparison_page, data |-> state.comparison_page]>>

\* the files written before the fault
WrittenBefore(fault) ==
    CASE fault = "none" -> outputs
      [] fault = "mkdir" -> <<>>
      [] fault = "open 1" -> <<>>
      [] fault = "open 2" -> SubSeq(outputs, 1, 1)
      [] fault = "open 3" -> SubSeq(outputs, 1, 2)

\* mutant of _write_outputs: an OSError is swallowed and success is returned
_write_outputs_swallowing ==
    /\ pc = "stage"
    /\ stage_num = WRITE
    /\ \E fault \in WriteFaults :
           /\ written' = WrittenBefore(fault)
           /\ pc' = "returned"
           /\ result' = [success |-> TRUE, outputs |-> OUTPUT_FILES]
           /\ UNCHANGED <<stage_num, input_path, product_b, raised_in>>
    /\ UNCHANGED <<state, started, finished, assigned, reads, llm_calls, call>>

\* _write_outputs and the end of run's try block
_write_outputs ==
    /\ pc = "stage"
    /\ stage_num = WRITE
    /\ \E fault \in WriteFaults :
           /\ written' = WrittenBefore(fault)
           /\ IF fault = "none"
              THEN /\ pc' = "returned"
                   /\ result' = [success |-> TRUE, outputs |-> OUTPUT_FILES]
                   /\ UNCHANGED <<stage_num, input_path, product_b, raised_in>>
              ELSE Except("OSError")
    /\ UNCHANGED <<state, started, finished, assigned, reads, llm_calls, call>>

Next ==
    \/ \E path \in InputPaths : run(path)
    \/ _stage_parse_product
    \/ _stage_generate_questions
    \/ questions_reply
    \/ _stage_prepare_content_blocks
    \/ _stage_load_templates
    \/ _stage_generate_faq
    \/ faq_reply
    \/ _stage_generate_product_page
    \/ product_page_reply
    \/ _stage_generate_comparison
    \/ product_b_reply
    \/ comparison_reply
    \/ _write_outputs

Spec == Init /\ [][Next]_vars

(***************************************************************************)
(* Comparison logic block (logic_blocks/comparison.py)                     *)
(*                                                                         *)
(* A product is a dictionary of tagged values. list(set) is kept as the    *)
(* set (its order is the interpreter's); a percentage is an integer number *)
(* of tenths (14.3 is 143); cheaper_option None is written "None", its     *)
(* other values being strings. The analysis and summary sentences, which   *)
(* no other field is computed from, are left out.                          *)
(***************************************************************************)
\* product.get(key, []) as the items iterated: the items of a list, the
\* characters of a string
ItemsOf(product, key) ==
    LET value == Get(product, key, Arr(<<>>))
    IN IF value.t = "arr" THEN [i \in DOMAIN value.v |-> value.v[i].v]
       ELSE [i \in DOMAIN value.v |-> <<value.v[i]>>]

\* mutant of ListsIterable: the list fields are subscripted, not read with get
ListsRequired(product) ==
    \A key \in {"ingredients", "benefits", "skin_type"} :
        key \in DOMAIN product /\ (IsStringArray(product[key]) \/ product[key].t = "str")

\* iterating the list fields and calling lower() on their items does not raise
ListsIterable(product) ==
    \A key \in {"ingredients", "benefits", "skin_type"} :
        key \in DOMAIN product => (IsStringArray(product[key]) \/ product[key].t = "str")

\* mutant of LoweredSet: the items are compared as they are written
ItemSet(product, key) == Range(ItemsOf(product, key))

\* set(i.lower() for i in product.get(key, []))
LoweredSet(product, key) == {lower(item) : item \in Range(ItemsOf(product, key))}

_compare_ingredients(prod_a, prod_b) ==
    LET ing_a == LoweredSet(prod_a, "ingredients")
        ing_b == LoweredSet(prod_b, "ingredients")
    IN [product_a |-> [ingredients |-> ItemsOf(prod_a, "ingredients"),
                       count |-> Len(ItemsOf(prod_a, "ingredients")),
                       concentration |-> Get(prod_a, "concentration", Str(<<"N", "/", "A">>))],
        product_b |-> [ingredients |-> ItemsOf(prod_b, "ingredients"),
                       count |-> Len(ItemsOf(prod_b, "ingredients")),
                       concentration |-> Get(prod_b, "concentration", Str(<<"N", "/", "A">>))],
        common_ingredients |-> ing_a \cap ing_b,
        unique_to_a |-> ing_a \ ing_b,
        unique_to_b |-> ing_b \ ing_a]

_compare_benefits(prod_a, prod_b) ==
    LET ben_a == LoweredSet(prod_a, "benefits")
        ben_b == LoweredSet(prod_b, "benefits")
    IN [product_a |-> [benefits |-> ItemsOf(prod_a, "benefits"),
                       count |-> Len(ItemsOf(prod_a, "benefits"))],
        product_b |-> [benefits |-> ItemsOf(prod_b, "benefits"),
                       count |-> Len(ItemsOf(prod_b, "benefits"))],
        common_benefits |-> ben_a \cap ben_b,
        unique_to_a |-> ben_a \ ben_b,
        unique_to_b |-> ben_b \ ben_a]

\* _extract_price of comparison.py, in hundredths
comparison_extract_price(price_value) ==
    IF price_value.t = "num" THEN price_value.v
    ELSE IF price_value.t = "str"
    THEN FirstNumber(RemoveChars(price_value.v, CurrencyAndSeparators))
    ELSE 0

\* mutant of round_half: the quotient is rounded to a multiple of ten
round_to_tens(num, den, half_up) == 10 * ((num + 5 * den) \div (10 * den))

\* round(num / den, 0) as an integer; half_up says which neighbour the float
\* arithmetic gives when num / den lies exactly between two integers
round_half(num, den, half_up) ==
    LET q == num \div den
        r == num % den
    IN IF 2 * r < den THEN q
       ELSE IF 2 * r > den THEN q + 1
       ELSE IF half_up THEN q + 1 ELSE q

\* mutant of _compare_price: the percentage is taken of the smaller price
_compare_price_of_smaller(prod_a, prod_b, half_up) ==
    LET price_a == comparison_extract_price(Get(prod_a, "price", Num(0)))
        price_b == comparison_extract_price(Get(prod_b, "price", Num(0)))
        difference == IF price_a >= price_b THEN price_a - price_b ELSE price_b - price_a
        smaller == IF price_a >= price_b THEN price_b ELSE price_a
    IN [product_a |-> [price |-> price_a],
        product_b |-> [price |-> price_b],
        difference |-> difference,
        percentage_difference |->
            IF smaller > 0 THEN round_half(difference * 1000, smaller, half_up) ELSE 0,
        cheaper_option |-> IF price_a < price_b THEN "product_a"
                           ELSE IF price_b < price_a THEN "product_b"
                           ELSE "None"]

_compare_price(prod_a, prod_b, half_up) ==
    LET price_a == comparison_extract_price(Get(prod_a, "price", Num(0)))
        price_b == comparison_extract_price(Get(prod_b, "price", Num(0)))
        difference == IF price_a >= price_b THEN price_a - price_b ELSE price_b - price_a
        larger == IF price_a >= price_b THEN price_a ELSE price_b
    IN [product_a |-> [price |-> price_a],
        product_b |-> [price |-> price_b],
        difference |-> difference,
        percentage_difference |->
            IF larger > 0 THEN round_half(difference * 1000, larger, half_up) ELSE 0,
        cheaper_option |-> IF price_a < price_b THEN "product_a"
                           ELSE IF price_b < price_a THEN "product_b"
                           ELSE "None"]

_compare_skin_types(prod_a, prod_b) ==
    [product_a |-> ItemsOf(prod_a, "skin_type"),
     product_b |-> ItemsOf(prod_b, "skin_type"),
     common_skin_types |-> LoweredSet(prod_a, "skin_type") \cap LoweredSet(prod_b, "skin_type")]

\* mutant of _calculate_scores: the winner is product_a unless product_b leads
_calculate_scores_no_tie(ingredients, benefits, price) ==
    LET Point(scored) == IF scored THEN 1 ELSE 0
        score_a == Point(ingredients.product_a.count > ingredients.product_b.count)
                   + Point(benefits.product_a.count > benefits.product_b.count)
                   + Point(price.cheaper_option = "product_a")
        score_b == Point(ingredients.product_b.count > ingredients.product_a.count)
                   + Point(benefits.product_b.count > benefits.product_a.count)
                   + Point(price.cheaper_option = "product_b")
    IN [product_a_score |-> score_a,
        product_b_score |-> score_b,
        winner |-> IF score_b > score_a THEN "product_b" ELSE "product_a"]

_calculate_scores(ingredients, benefits, price) ==
    LET Point(scored) == IF scored THEN 1 ELSE 0
        score_a == Point(ingredients.product_a.count > ingredients.product_b.count)
                   + Point(benefits.product_a.count > benefits.product_b.count)
                   + Point(price.cheaper_option = "product_a")
        score_b == Point(ingredients.product_b.count > ingredients.product_a.count)
                   + Point(benefits.product_b.count > benefits.product_a.count)
                   + Point(price.cheaper_option = "product_b")
    IN [product_a_score |-> score_a,
        product_b_score |-> score_b,
        winner |-> IF score_a > score_b THEN "product_a"
                   ELSE IF score_b > score_a THEN "product_b"
                   ELSE "tie"]

\* the outcome is the result returned, or the exception raised when a list
\* field cannot be iterated
compare_products(prod_a, prod_b, half_up) ==
    IF ~ListsIterable(prod_a) \/ ~ListsIterable(prod_b) THEN Raised("TypeError")
    ELSE Ok([type |-> "comparison",
             products |-> [product_a |-> Get(prod_a, "name", Str(<<"P", "r", "o", "d", "u", "c", "t", " ", "A">>)),
                           product_b |-> Get(prod_b, "name", Str(<<"P", "r", "o", "d", "u", "c", "t", " ", "B">>))],
             dimensions |-> [ingredients |-> _compare_ingredients(prod_a, prod_b),
                             benefits |-> _compare_benefits(prod_a, prod_b),
                             price |-> _compare_price(prod_a, prod_b, half_up),
                             skin_type |-> _compare_skin_types(prod_a, prod_b)],
             scores |-> _calculate_scores(_compare_ingredients(prod_a, prod_b),
                                          _compare_benefits(prod_a, prod_b),
                                          _compare_price(prod_a, prod_b, half_up))])

(***************************************************************************)
(* Direct calls of the agents' methods, one call on a fresh agent (as the  *)
(* agents' standalone blocks and any other caller make them), over the     *)
(* arguments below.                                                        *)
(***************************************************************************)
MaxPad == 1
MaxQuestions == 5
MaxText == 4
MaxItems == 3

\* the agent's copy of _parse_response; the outcome is the value returned or
\* the exception raised
_parse_response(agent, response) ==
    CASE agent = "QuestionGeneratorAgent" -> QuestionGeneratorAgent_parse_response(response)
      [] agent = "FAQPageAgent" -> FAQPageAgent_parse_response(response)
      [] agent = "ProductPageAgent" -> ProductPageAgent_parse_response(response)
      [] agent = "ComparisonAgent" -> ComparisonAgent_parse_response(response)

\* n whitespace characters
Pad(n) == [i \in 1..n |-> Space]

\* the opening fence, tagged "json" or not
Openings == {<<Fence, JsonTag>>, <<Fence>>}

\* a JSON document in a fenced block, with whitespace around the fences
Envelope(opening, lead, before, after, trail, value) ==
    Pad(lead) \o opening \o Pad(before) \o <<Doc(value)>> \o Pad(after)
    \o <<Fence>> \o Pad(trail)

\* the JSON documents an answer carries
JsonDocs ==
    {FullQuestions, ShortQuestions, SkewQuestions, FaqAnswers(FaqEntries), NoFaqsKey,
     Enhanced, Analysis, ProductB(Str(<<Rupee, "5", "9", "9">>)), Arr(<<>>)}

\* the texts _parse_response is given
ResponseTexts ==
    {Envelope(opening, lead, before, after, trail, value) :
        opening \in Openings, lead \in 0..MaxPad, before \in 0..MaxPad,
        after \in 0..MaxPad, trail \in 0..MaxPad, value \in JsonDocs}
    \cup {Plain(value) : value \in JsonDocs}
    \cup {NotJson, <<>>, <<Space>>, <<Fence, JsonTag, Junk, Fence>>,
          <<Fence, JsonTag, Doc(Arr(<<>>))>>, <<Doc(Arr(<<>>)), Fence>>}

call_parse_response ==
    /\ call.fn = "none"
    /\ \E agent \in {"QuestionGeneratorAgent", "FAQPageAgent", "ProductPageAgent",
                    "ComparisonAgent"},
          response \in ResponseTexts :
        /\ call' = [fn |-> "_parse_response", agent |-> agent, response |-> response,
                    out |-> _parse_response(agent, response)]
        /\ UNCHANGED pipeline

\* a Question Set: for every category present, its list of questions
QuestionSet(sizes) ==
    [c \in {k \in DOMAIN sizes : sizes[k] >= 0} |-> QuestionList(c, sizes[c])]

\* sizes: the size of each category's list, -1 for a category whose key is absent
call_select_questions ==
    /\ call.fn = "none"
    /\ \E sizes \in [Range(QUESTION_CATEGORIES) -> -1..MaxQuestions] :
        /\ call' = [fn |-> "_select_questions", questions |-> QuestionSet(sizes),
                    out |-> _select_questions(QuestionSet(sizes))]
        /\ UNCHANGED pipeline

\* raw inputs that satisfy the input schema
ValidRaws ==
    LET Names == {<<" ", "G", "l", "o", "w", " ", "C", " ">>, <<"A", "+", "+", "1">>, <<>>}
        Concentrations ==
            {<<"1", "0", "%", " ", "C", ",", " ", "5", "%", " ", "N">>,
             <<"1", "5", ".", "5", "%">>, <<"n", "/", "a">>, <<>>}
        Prices == {<<Rupee, "1", ",", "2", "9", "9">>, <<"$", "2", "9", ".", "9", "9">>,
                   <<"f", "r", "e", "e">>, <<"-", "5">>}
        Lists ==
            {Arr(<<Str(<<" ", "O", "i", "l", "y">>), Str(<<" ">>), Str(<<"D", "r", "y">>)>>),
             Arr(<<Str(<<"\t">>), Str(<<>>)>>),
             Arr(<<>>)}
        Usages == {<<"A", "M", " ">>, <<" ", "\n">>, <<>>}
    IN {Obj([product_name |-> Str(name), concentration |-> Str(concentration),
             skin_type |-> skin_type, key_ingredients |-> skin_type,
             benefits |-> SerumRaw.benefits, how_to_use |-> Str(usage),
             side_effects |-> Str(usage), price |-> Str(price)]) :
           name \in Names, concentration \in Concentrations, skin_type \in Lists,
           usage \in Usages, price \in Prices}

\* raw inputs that do not: a key is missing, or a value has another type
InvalidRaws ==
    [k \in INPUT_REQUIRED |-> Obj(Without(k))]
    @@ [comma_skin |-> Obj(CommaSkinRaw),
        number_price |-> Obj(NumberPriceRaw),
        comma_benefits |->
            Obj([SerumRaw EXCEPT !.benefits = Str(<<"G", "l", "o", "w", ",", " ", "F", "a", "d", "e">>)]),
        number_concentration |-> Obj([SerumRaw EXCEPT !.concentration = Num(1000)]),
        list |-> Arr(<<Obj(SerumRaw)>>),
        number_name |-> Obj([SerumRaw EXCEPT !.product_name = Num(700)]),
        number_in_benefits |->
            Obj([SerumRaw EXCEPT !.benefits = Arr(<<Str(<<"G">>), Num(100)>>)])]

\* agent.parse(raw) on a dictionary
Parse(raw) ==
    \E short_uuid \in ShortUuids :
        /\ call' = [fn |-> "parse", input |-> raw, out |-> parse_data(raw, short_uuid)]
        /\ UNCHANGED pipeline

call_parse == call.fn = "none" /\ \E raw \in ValidRaws : Parse(raw)
call_parse_invalid ==
    call.fn = "none" /\ \E i \in DOMAIN InvalidRaws : Parse(InvalidRaws[i])

\* agent.parse(raw) a second time on the same dictionary
call_parse_again ==
    /\ call.fn = "parse"
    /\ \E short_uuid \in ShortUuids :
        /\ call' = [fn |-> "parse again", input |-> call.input, first |-> call.out,
                    out |-> parse_data(call.input, short_uuid)]
        /\ UNCHANGED pipeline

\* the strings the two extractors are given: the examples of their docstrings
\* and of the product sample, and every text of at most MaxText characters
\* over digits, the decimal point and the characters _extract_price removes
NumericTexts ==
    {<<Rupee, "6", "9", "9">>, <<Rupee, "1", ",", "2", "9", "9">>,
     <<"$", "2", "9", ".", "9", "9">>, <<"1", ",", "2", "9", "9">>,
     <<"1", "5", ".", "5", "%", " ", "A", "c", "t", "i", "v", "e">>,
     <<"1", "0", "%", " ", "V", "i", "t", "a", "m", "i", "n", " ", "C", ",", " ",
       "5", "%", " ", "N", "i", "a", "c", "i", "n", "a", "m", "i", "d", "e">>,
     <<"5", "%">>}
    \cup UNION {[1..n -> {"1", "5", ".", ",", " ", Rupee, "%"}] : n \in 0..MaxText}

\* agent._extract_concentration(text) and agent._extract_price(text)
call_extract ==
    /\ call.fn = "none"
    /\ \E text \in NumericTexts :
        /\ call' = [fn |-> "extract", text |-> text,
                    concentration |-> _extract_concentration(Str(text)),
                    price |-> _extract_price(Str(text))]
        /\ UNCHANGED pipeline

\* agent._normalize_array(value) on a list of at most MaxItems strings, on a
\* string of at most MaxText characters, and on a value of another type
call_normalize_array ==
    LET NormalizeArray(value) ==
            /\ call' = [fn |-> "_normalize_array", value |-> value,
                        out |-> _normalize_array(value)]
            /\ UNCHANGED pipeline
    IN
    /\ call.fn = "none"
    /\ \/ \E n \in 0..MaxItems :
            \E items \in [1..n -> {<<>>, <<" ">>, <<"a">>, <<" ", "a", "\t">>, <<"b", " ", "c">>}] :
                NormalizeArray(Arr([i \in 1..n |-> Str(items[i])]))
       \/ \E n \in 0..MaxText :
            \E text \in [1..n -> {"a", "b", ",", " "}] : NormalizeArray(Str(text))
       \/ NormalizeArray(Num(500))
       \/ NormalizeArray(Obj([a |-> Str(<<"a">>)]))
       \/ NormalizeArray([t |-> "null", v |-> NULL])

\* the two products of the block's standalone run
sample_product_a ==
    [name |-> Str(<<"G", "l", "o", "w", "B", "o", "o", "s", "t", " ", "V", "i", "t", "a", "m", "i", "n", " ", "C", " ", "S", "e", "r", "u", "m">>),
     ingredients |->
         Arr(<<Str(<<"V", "i", "t", "a", "m", "i", "n", " ", "C">>),
               Str(<<"H", "y", "a", "l", "u", "r", "o", "n", "i", "c", " ", "A", "c", "i", "d">>)>>),
     benefits |->
         Arr(<<Str(<<"B", "r", "i", "g", "h", "t", "e", "n", "i", "n", "g">>),
               Str(<<"F", "a", "d", "e", "s", " ", "d", "a", "r", "k", " ", "s", "p", "o", "t", "s">>)>>),
     price |-> Num(69900),
     skin_type |-> Arr(<<Str(<<"O", "i", "l", "y">>),
                        Str(<<"C", "o", "m", "b", "i", "n", "a", "t", "i", "o", "n">>)>>)]

sample_product_b ==
    [name |-> Str(<<"R", "a", "d", "i", "a", "n", "t", "G", "l", "o", "w", " ", "S", "e", "r", "u", "m">>),
     ingredients |->
         Arr(<<Str(<<"N", "i", "a", "c", "i", "n", "a", "m", "i", "d", "e">>),
               Str(<<"H", "y", "a", "l", "u", "r", "o", "n", "i", "c", " ", "A", "c", "i", "d">>),
               Str(<<"Z", "i", "n", "c">>)>>),
     benefits |->
         Arr(<<Str(<<"P", "o", "r", "e", " ", "m", "i", "n", "i", "m", "i", "z", "i", "n", "g">>),
               Str(<<"O", "i", "l", " ", "c", "o", "n", "t", "r", "o", "l">>),
               Str(<<"B", "r", "i", "g", "h", "t", "e", "n", "i", "n", "g">>)>>),
     price |-> Num(59900),
     skin_type |-> Arr(<<Str(<<"O", "i", "l", "y">>),
                        Str(<<"A", "c", "n", "e", "-", "p", "r", "o", "n", "e">>)>>)]

\* a product with every field but concentration: i chooses its ingredients,
\* benefits and price
Variation(i) ==
    LET IngredientOptions ==
            <<Arr(<<>>),
              Arr(<<Str(<<"Z", "i", "n", "c">>)>>),
              Arr(<<Str(<<"z", "i", "n", "c">>), Str(<<"V", "i", "t", " ", "C">>)>>),
              Arr(<<Str(<<"V", "i", "t", " ", "C">>), Str(<<"Z", "I", "N", "C">>),
                    Str(<<"Z", "i", "n", "c">>)>>)>>
        BenefitOptions ==
            <<Arr(<<>>),
              Arr(<<Str(<<"G", "l", "o", "w">>)>>),
              Arr(<<Str(<<"g", "l", "o", "w">>), Str(<<"F", "a", "d", "e", "s">>)>>)>>
        PriceOptions ==
            <<Num(0), Num(59900), Num(69900), Num(39900), Num(40000), Num(-500),
              Str(<<Rupee, "5", "9", "9">>), Str(<<"f", "r", "e", "e">>),
              [t |-> "null", v |-> NULL]>>
    IN [name |-> Str(<<"S", "e", "r", "u", "m">>),
        ingredients |-> IngredientOptions[i.ingredients],
        benefits |-> BenefitOptions[i.benefits],
        price |-> PriceOptions[i.price],
        skin_type |-> IF i.price = 1 THEN Arr(<<Str(<<"O", "I", "L", "Y">>)>>)
                      ELSE Arr(<<Str(<<"O", "i", "l", "y">>), Str(<<"D", "r", "y">>)>>)]

\* compare_products(prod_a, prod_b) on two products with every field, on the
\* sample products with any of the six fields missing, and on a product whose
\* list field is None; the call record keeps the arguments as they were given
\* and as the call leaves them (the function assigns to neither)
call_compare_products ==
    LET ProductKeys == {"name", "ingredients", "benefits", "price", "skin_type",
                        "concentration"}
        Partial(sample, keys) ==
            [k \in keys |-> IF k \in DOMAIN sample THEN sample[k]
                            ELSE Str(<<"1", "0", "%">>)]
        Compare(prod_a, prod_b) ==
            \E half_up \in BOOLEAN :
                /\ call' = [fn |-> "compare_products",
                            given_a |-> prod_a, given_b |-> prod_b,
                            product_a |-> prod_a, product_b |-> prod_b,
                            out |-> compare_products(prod_a, prod_b, half_up)]
                /\ UNCHANGED pipeline
    IN
    /\ call.fn = "none"
    /\ \/ \E i, j \in [ingredients : 1..4, benefits : 1..3, price : 1..9] :
            Compare(Variation(i), Variation(j))
       \/ \E keys_a, keys_b \in SUBSET ProductKeys :
            Compare(Partial(sample_product_a, keys_a), Partial(sample_product_b, keys_b))
       \/ \E key \in {"ingredients", "benefits", "skin_type"} :
            \/ Compare([sample_product_a EXCEPT ![key] = [t |-> "null", v |-> NULL]],
                       sample_product_b)
            \/ Compare(sample_product_a,
                       [sample_product_b EXCEPT ![key] = Arr(<<Str(<<"a">>), Num(500)>>)])

AgentCallsNext ==
    \/ call_compare_products
    \/ call_normalize_array
    \/ call_extract
    \/ call_parse_response
    \/ call_select_questions
    \/ call_parse
    \/ call_parse_invalid
    \/ call_parse_again

AgentCalls == Init /\ [][AgentCallsNext]_vars

(***************************************************************************)
(* Properties                                                              *)
(***************************************************************************)
Returned == pc = "returned"
Completed == Returned /\ result.success
Failed == Returned /\ ~result.success
AllStages == [i \in 1..NumStages |-> i]
AssignmentsBy(k) == {i \in DOMAIN assigned : assigned[i].stage = k}
AssignmentsTo(f) == {i \in DOMAIN assigned : assigned[i].field = f}

\* C1: in every run the stages start in the order 1, 2, ..., 7; a stage starts
\* only when every earlier stage has returned, none is skipped, none runs twice.
C1_StagesInOrder ==
    /\ Len(started) <= NumStages
    /\ started = SubSeq(AllStages, 1, Len(started))
    /\ finished = SubSeq(AllStages, 1, Len(finished))
    /\ Len(finished) <= Len(started)
    /\ Len(started) <= Len(finished) + 1

C1_Witness == Completed /\ started = AllStages /\ finished = AllStages

\* C2: once stage k has raised, the run is over: no later stage was started,
\* _write_outputs was not invoked and no output file was written.
C2_FailFast ==
    raised_in \in 1..NumStages =>
        /\ Returned
        /\ Len(started) = raised_in
        /\ \A i \in DOMAIN started : started[i] <= raised_in
        /\ Len(finished) = raised_in - 1
        /\ stage_num = raised_in
        /\ written = <<>>

C2_Witness == raised_in = 2 /\ Failed

\* C3 (as claimed): the failure result names the stage that raised.
C3_FailingStageReported ==
    (Failed /\ raised_in \in 1..NumStages) =>
        ("stage" \in DOMAIN result /\ result.stage = raised_in)

\* C4 (as claimed): when run has returned, all three files were written or none.
C4_AllOrNothing == Returned => Len(written) \in {0, Len(outputs)}

\* C5: a run ends in exactly one of two outcomes, Completed (all seven stages
\* returned, the three pages are set, the three files are written) or Failed
\* (an error message, for the exception of a stage or of output writing); until
\* it returns the run is inside one of its stages or blocked in an LLM call of
\* an LLM-backed stage, so no exception has left run.
C5_TwoOutcomes ==
    /\ result # NULL <=> Returned
    /\ Returned =>
          /\ result.success \in BOOLEAN
          /\ result.success =>
                /\ finished = AllStages
                /\ raised_in = 0
                /\ \A f \in {"faq_page", "product_page", "comparison_page"} :
                       state[f] # NULL
                /\ written = outputs
          /\ ~result.success =>
                /\ "error" \in DOMAIN result
                /\ raised_in \in 1..WRITE
    /\ pc \in {"idle", "stage", "llm", "returned"}
    /\ pc = "stage" => stage_num \in 1..WRITE
    /\ pc = "llm" => stage_num \in {2, 5, 6, 7}

C5_Witness == Failed /\ raised_in = WRITE /\ finished = AllStages

\* the field each stage is responsible for; stage 4 has none
StageField ==
    [k \in 1..NumStages |->
        CASE k = 1 -> {"parsed_product"}
          [] k = 2 -> {"questions"}
          [] k = 3 -> {"content_blocks"}
          [] k = 4 -> {}
          [] k = 5 -> {"faq_page"}
          [] k = 6 -> {"product_page"}
          [] OTHER -> {"comparison_page"}]

\* C6 (as claimed): every stage that returned assigned exactly one field, and
\* by the end of the seventh stage some stage has assigned raw_product.
C6_OneFieldPerStage ==
    /\ \A k \in Range(finished) : Cardinality(AssignmentsBy(k)) = 1
    /\ finished = AllStages => AssignmentsTo("raw_product") # {}

C6_AssignmentsPerStage ==
    /\ \A k \in Range(finished) :
           /\ {assigned[i].field : i \in AssignmentsBy(k)} = StageField[k]
           /\ Cardinality(AssignmentsBy(k)) = Cardinality(StageField[k])
    /\ \A k \in 1..NumStages : k \notin Range(finished) => AssignmentsBy(k) = {}
    /\ state.raw_product = NULL

C6_Frame ==
    \A f \in Fields :
        state'[f] # state[f] =>
            /\ stage_num \in 1..NumStages
            /\ f \in StageField[stage_num]
            /\ finished' = Append(finished, stage_num)

\* C6 (amended): a stage that returns has assigned exactly its own field
\* (1 parsed_product, 2 questions, 3 content_blocks, 5 faq_page, 6 product_page,
\* 7 comparison_page) and stage 4 has assigned none; a stage that raised has
\* assigned none; raw_product is never assigned; and no step changes a field
\* other than the field of the stage that returns in that step.
C6_StagesWriteOwnField == []C6_AssignmentsPerStage /\ [][C6_Frame]_vars

C6_Witness ==
    /\ finished = AllStages
    /\ AssignmentsBy(4) = {}
    /\ Len(assigned) = NumStages - 1

\* C7: every field of the state handed to an agent as input was not None when
\* it was read and had been assigned in the same run by an earlier stage
\* (parsed_product by stage 1 for stages 2, 3, 5, 6, 7; questions by stage 2 for
\* stage 5).
C7_ReadsAfterWrites ==
    /\ \A r \in reads :
           /\ ~r.null
           /\ r.writers # {}
           /\ \A w \in r.writers : w < r.stage
           /\ r.field = "parsed_product" => r.writers = {1}
           /\ r.field = "questions" => r.writers = {2}
    /\ \A k \in Range(started) \ {1, 4} :
           \E r \in reads : r.stage = k /\ r.field = "parsed_product"
    /\ 5 \in Range(started) => \E r \in reads : r.stage = 5 /\ r.field = "questions"

C7_Witness ==
    /\ finished = AllStages
    /\ [stage |-> 5, field |-> "questions", null |-> FALSE, writers |-> {2}] \in reads
    /\ [stage |-> 7, field |-> "parsed_product", null |-> FALSE, writers |-> {1}] \in reads

C8_CreatedOnce ==
    /\ AssignmentsTo("parsed_product") \subseteq AssignmentsBy(1)
    /\ Cardinality(AssignmentsTo("parsed_product")) =
           (IF 1 \in Range(finished) THEN 1 ELSE 0)

C8_Unchanged == 1 \in Range(finished) => state'.parsed_product = state.parsed_product

\* C8: parsed_product is assigned once per run, by stage 1, and from the return
\* of stage 1 on no step of the run (stages 2 to 7, output writing, the return
\* of run) changes any part of it.
C8_ProductImmutable == []C8_CreatedOnce /\ [][C8_Unchanged]_vars

C8_Witness == Completed /\ state.parsed_product # NULL /\ written = outputs

\* C9 (as claimed): when run is entered, every field of the state is None.
C9_StateEmptyAtRunStart ==
    (pc = "stage" /\ stage_num = 1) => state = [f \in Fields |-> NULL]

\* C10: an LLM call that raised is the last call of its run: the stage failed
\* at once, the run returned Failed for that stage, the call was not issued
\* again and no other call followed.
C10_NoRetry ==
    \A i \in DOMAIN llm_calls :
        llm_calls[i].raised =>
            /\ i = Len(llm_calls)
            /\ Failed
            /\ raised_in = llm_calls[i].stage
            /\ result.error = "LLM call failed"

C10_Witness ==
    /\ Len(llm_calls) = 5
    /\ llm_calls[5].raised
    /\ llm_calls[5].stage = 7

LLMStages == {2, 5, 6, 7}
CallsBy(k) == {i \in DOMAIN llm_calls : llm_calls[i].stage = k}
InFlight == {i \in DOMAIN llm_calls : ~llm_calls[i].raised /\ ~llm_calls[i].answered}

\* C11 (as claimed): a stage that returned has called the LLM service exactly
\* once, and a Completed run has called it once for each of the stages 2, 5, 6, 7.
C11_OneCallPerStage ==
    /\ \A k \in LLMStages \cap Range(finished) : Cardinality(CallsBy(k)) = 1
    /\ Completed => Len(llm_calls) = Cardinality(LLMStages)

\* the calls the code makes in one successful execution of stage k
CallsOfStage == [k \in LLMStages |-> IF k = 7 THEN 2 ELSE 1]

\* C11 (amended): stages 2, 5 and 6 call the LLM service exactly once per
\* successful execution and stage 7 exactly twice (product B, then the
\* comparison); every call carries one prompt, every call of a stage that
\* returned was answered by one text, a call is issued only when the call before
\* it was answered, and a Completed run has made exactly the five calls
\* 2, 5, 6, 7, 7 in this order.
C11_CallsPerStage ==
    /\ \A i \in DOMAIN llm_calls :
           /\ llm_calls[i].stage \in LLMStages
           /\ llm_calls[i].stage \in Range(started)
           /\ "prompt" \in DOMAIN llm_calls[i]
           /\ llm_calls[i].prompt # NULL
           /\ ~(llm_calls[i].raised /\ llm_calls[i].answered)
           /\ i < Len(llm_calls) =>
                  /\ llm_calls[i].answered
                  /\ llm_calls[i].stage <= llm_calls[i + 1].stage
    /\ InFlight # {} <=> pc = "llm"
    /\ \A k \in LLMStages :
           /\ Cardinality(CallsBy(k)) <= CallsOfStage[k]
           /\ k \in Range(finished) =>
                  /\ Cardinality(CallsBy(k)) = CallsOfStage[k]
                  /\ \A i \in CallsBy(k) : llm_calls[i].answered
    /\ Completed =>
           [i \in DOMAIN llm_calls |-> llm_calls[i].stage] = <<2, 5, 6, 7, 7>>

C11_Witness ==
    /\ Completed
    /\ Len(llm_calls) = 5
    /\ \A i \in DOMAIN llm_calls : llm_calls[i].answered

\* the answer of call i is not one JSON document once the fences are stripped
Undecodable(i) ==
    llm_calls[i].answered /\ ~json_loads(StripFences(llm_calls[i].response)).ok

\* C12 (as claimed): an answer that is not valid JSON after fence-stripping fails
\* its stage: the call is the last of the run, the run is Failed for that stage,
\* and the stage's field was not assigned (no default stands in for the answer).
C12_UndecodableIsFatal ==
    \A i \in DOMAIN llm_calls :
        Undecodable(i) =>
            /\ i = Len(llm_calls)
            /\ Failed
            /\ raised_in = llm_calls[i].stage
            /\ AssignmentsBy(llm_calls[i].stage) = {}

\* C13: for every JSON document J, every agent's _parse_response gives for J in
\* a fenced block (opening fence tagged "json" or untagged, closing fence, any
\* whitespace around the fences) the outcome it gives for J alone; for the two
\* parsers that return the decoded value as it is, that outcome is J.
C13_FenceRoundTrip ==
    call.fn = "_parse_response" =>
        \A value \in JsonDocs, opening \in Openings :
            \A lead \in 0..MaxPad, before \in 0..MaxPad, after \in 0..MaxPad,
               trail \in 0..MaxPad :
                call.response = Envelope(opening, lead, before, after, trail, value) =>
                    /\ call.out = _parse_response(call.agent, Plain(value))
                    /\ call.agent \in {"ProductPageAgent", "ComparisonAgent"} =>
                           call.out = Ok(value)
                    /\ (call.agent = "FAQPageAgent" /\ value = FaqAnswers(FaqEntries)) =>
                           call.out = Ok(value.v.faqs)

C13_Witness ==
    /\ call.fn = "_parse_response"
    /\ call.agent = "FAQPageAgent"
    /\ call.response = Envelope(<<Fence>>, MaxPad, 0, MaxPad, 0, FaqAnswers(FaqEntries))
    /\ call.out = Ok(FaqAnswers(FaqEntries).v.faqs)

\* the JSON document in the answer of call i
DocOf(i) ==
    LET text == llm_calls[i].response
    IN text[CHOOSE j \in DOMAIN text : text[j].tok = "doc"].val

\* the number of questions a dictionary holds in the five categories
CategoryTotal(d) ==
    LET n(c) == IF c \in DOMAIN d THEN Len(d[c].v) ELSE 0
    IN n("informational") + n("usage") + n("safety") + n("purchase") + n("comparison")

\* C14: when stage 2 has returned, the Question Set it stored has exactly the
\* five category keys and at least TOTAL_MIN_QUESTIONS questions over them; and
\* when the answer to stage 2's call is a JSON object with fewer questions in the
\* five categories, stage 2 raised, stored nothing and the run is Failed.
C14_QuestionMinimum ==
    /\ 2 \in Range(finished) =>
           /\ DOMAIN state.questions =
                  {"informational", "usage", "safety", "purchase", "comparison"}
           /\ CategoryTotal(state.questions) >= TOTAL_MIN_QUESTIONS
    /\ \A i \in CallsBy(2) :
           (/\ llm_calls[i].answered
            /\ ~Undecodable(i)
            /\ DocOf(i).t = "obj"
            /\ CategoryTotal(DocOf(i).v) < TOTAL_MIN_QUESTIONS) =>
               /\ Failed
               /\ raised_in = 2
               /\ result.error = "Insufficient questions generated"
               /\ AssignmentsBy(2) = {}

C14_Witness ==
    /\ Failed
    /\ raised_in = 2
    /\ llm_calls[1].answered
    /\ DocOf(1) = ShortQuestions
    /\ CategoryTotal(DocOf(1).v) < TOTAL_MIN_QUESTIONS
    /\ result.error = "Insufficient questions generated"

\* C15 (as claimed): stage 5 returns only with at least MIN_FAQ_ITEMS entries in
\* the FAQ document, so a Completed run has at least that many.
C15_FaqMinimum ==
    5 \in Range(finished) =>
        /\ state.faq_page.total_faqs >= MIN_FAQ_ITEMS
        /\ Len(state.faq_page.faqs.v) >= MIN_FAQ_ITEMS

\* the categories of a Question Set that hold a question, in priority order
Populated(q) ==
    SelectSeq(<<"informational", "usage", "safety", "purchase", "comparison">>,
              LAMBDA c : c \in DOMAIN q /\ Len(q[c].v) > 0)

\* entry e of a selection is the first question of its category
IsFirstOf(q, e) == e.question = q[e.category].v[1]

\* C16: for every Question Set the selection starts with the first question of
\* every category that has one, in the order informational, usage, safety,
\* purchase, comparison, and every entry after them is a backfilled one (never
\* a category's first question): diversity comes before volume.
C16_DiversityFirst ==
    call.fn = "_select_questions" =>
        LET q == call.questions
            cats == Populated(q)
        IN /\ Len(call.out) >= Len(cats)
           /\ \A j \in 1..Len(cats) :
                  call.out[j] = [question |-> q[cats[j]].v[1], category |-> cats[j]]
           /\ \A j \in (Len(cats) + 1)..Len(call.out) :
                  /\ call.out[j].category \in Range(cats)
                  /\ ~IsFirstOf(q, call.out[j])

C16_Witness ==
    /\ call.fn = "_select_questions"
    /\ Populated(call.questions) = <<"usage", "purchase", "comparison">>
    /\ Len(call.out) > 3
    /\ call.out[1].category = "usage"
    /\ call.out[3].category = "comparison"
    /\ call.out[4].category = "usage"

\* the number of questions of a Question Set
TotalQuestions(q) == CategoryTotal(q)

Smaller(a, b) == IF a < b THEN a ELSE b

\* C17: for every Question Set with T questions the selection has at least
\* min(T, MIN_FAQ_ITEMS) and at most MIN_FAQ_ITEMS + 2 entries, no question is
\* selected twice, and the first question of a category is selected only once
\* (by the first pass).
C17_SelectionSize ==
    call.fn = "_select_questions" =>
        LET q == call.questions
            sel == call.out
        IN /\ Len(sel) >= Smaller(TotalQuestions(q), MIN_FAQ_ITEMS)
           /\ Len(sel) <= MIN_FAQ_ITEMS + 2
           /\ \A i \in DOMAIN sel : \A j \in DOMAIN sel : i # j => sel[i] # sel[j]
           /\ \A c \in Range(Populated(q)) :
                  Cardinality({i \in DOMAIN sel :
                                  sel[i].category = c /\ IsFirstOf(q, sel[i])}) = 1
           /\ \A i \in DOMAIN sel :
                  \E k \in DOMAIN q[sel[i].category].v :
                      sel[i].question = q[sel[i].category].v[k]

C17_Witness ==
    /\ call.fn = "_select_questions"
    /\ Len(call.out) = MIN_FAQ_ITEMS + 2
    /\ TotalQuestions(call.questions) > MIN_FAQ_ITEMS + 2
    /\ Len(Populated(call.questions)) < Len(QUESTION_CATEGORIES)

\* a text with no whitespace at either end
Trimmed(text) ==
    text = <<>> \/ (text[1] \notin {" ", "\t", "\n"} /\ text[Len(text)] \notin {" ", "\t", "\n"})

HasNoDigit(text) ==
    \A i \in DOMAIN text : text[i] \notin {"0", "1", "2", "3", "4", "5", "6", "7", "8", "9"}

\* the call is parse (the first or the second time) on an input that satisfies
\* the input schema
ParsedValidInput ==
    call.fn \in {"parse", "parse again"} /\ PRODUCT_INPUT_SCHEMA(call.input)

\* C18: for every raw input that passes input validation parse returns a
\* record with exactly the nine canonical fields that satisfies the output
\* schema: concentration and price are non-negative numbers, 0 when the text
\* holds no digit; skin_type, ingredients and benefits are lists of non-empty
\* trimmed texts; id, name, usage and side_effects are texts, the last three
\* trimmed.
C18_CanonicalRecord ==
    ParsedValidInput =>
        /\ call.out.ok
        /\ LET p == call.out.value
               raw == call.input.v
           IN /\ DOMAIN p = {"id", "name", "concentration", "skin_type", "ingredients",
                             "benefits", "usage", "side_effects", "price"}
              /\ PARSED_PRODUCT_SCHEMA(p)
              /\ p.concentration \in Nat
              /\ p.price \in Nat
              /\ HasNoDigit(raw.concentration.v) => p.concentration = 0
              /\ HasNoDigit(raw.price.v) => p.price = 0
              /\ \A k \in {"skin_type", "ingredients", "benefits"} :
                     \A i \in DOMAIN p[k] :
                         /\ p[k][i] \in Seq(STRING)
                         /\ p[k][i] # <<>>
                         /\ Trimmed(p[k][i])
              /\ \A k \in {"name", "usage", "side_effects"} :
                     p[k] \in Seq(STRING) /\ Trimmed(p[k])
              /\ p.id \in Seq(STRING)

C18_Witness ==
    /\ call.fn = "parse"
    /\ PRODUCT_INPUT_SCHEMA(call.input)
    /\ call.input.v.concentration.v = <<"n", "/", "a">>
    /\ call.input.v.price.v = <<Rupee, "1", ",", "2", "9", "9">>
    /\ Len(call.input.v.skin_type.v) = 3
    /\ call.out.ok
    /\ call.out.value.concentration = 0
    /\ call.out.value.price = 129900
    /\ call.out.value.skin_type = <<<<"O", "i", "l", "y">>, <<"D", "r", "y">>>>
    /\ call.out.value.name = <<"G", "l", "o", "w", " ", "C">>

\* C19 (as claimed): parsing the same valid input a second time gives a record
\* equal to the first in every field but id, and an id that differs from the
\* first while keeping its slug (the id without the eight characters drawn at
\* random).
C19_SameContentDifferentId ==
    (call.fn = "parse again" /\ call.first.ok /\ call.out.ok) =>
        LET a == call.first.value
            b == call.out.value
        IN /\ \A k \in DOMAIN a \ {"id"} : a[k] = b[k]
           /\ Len(a.id) = Len(b.id)
           /\ SubSeq(a.id, 1, Len(a.id) - 8) = SubSeq(b.id, 1, Len(b.id) - 8)
           /\ a.id # b.id

\* the file given to run exists and lacks a required key, or holds a value of
\* the wrong type (skin_type as a string, price as a number, a list at the top)
InvalidInputFile ==
    input_path \in {"input/no_product_name.json", "input/no_concentration.json",
                    "input/no_skin_type.json", "input/no_key_ingredients.json",
                    "input/no_benefits.json", "input/no_how_to_use.json",
                    "input/no_side_effects.json", "input/no_price.json",
                    "input/comma_skin.json", "input/number_price.json",
                    "input/list.json"}

C20_FailedAtStageOne ==
    (InvalidInputFile /\ started # <<>>) =>
        /\ Failed
        /\ raised_in = 1
        /\ result.error = "Invalid input data"
        /\ started = <<1>>
        /\ finished = <<>>
        /\ assigned = <<>>
        /\ llm_calls = <<>>
        /\ written = <<>>

C20_StateUntouched ==
    (InvalidInputFile /\ pc = "stage" /\ stage_num = 1) => state' = state

\* C20: when the raw input lacks a required key or holds a value of the wrong
\* type, parse raises the validation error before it normalizes anything, so
\* stage 1 gets no record: it assigns nothing (parsed_product keeps the value it
\* had when the run was entered, None on a fresh Orchestrator), no other stage
\* starts, and the run ends Failed at stage 1 with the validation error.
C20_InvalidInputRejected == []C20_FailedAtStageOne /\ [][C20_StateUntouched]_vars

C20_Witness ==
    /\ Failed
    /\ raised_in = 1
    /\ input_path = "input/comma_skin.json"
    /\ result.error = "Invalid input data"
    /\ state.parsed_product = NULL

\* the Raw Product Input model: every key present, the texts as strings, each
\* list as a list of strings or one string, concentration and price as a
\* string or a number
RawProductInput(data) ==
    /\ data.t = "obj"
    /\ INPUT_REQUIRED \subseteq DOMAIN data.v
    /\ \A k \in {"product_name", "how_to_use", "side_effects"} : data.v[k].t = "str"
    /\ \A k \in {"concentration", "price"} : data.v[k].t \in {"str", "num"}
    /\ \A k \in INPUT_ARRAY_KEYS : data.v[k].t = "str" \/ IsStringArray(data.v[k])

\* C21 (as claimed): parse accepts every input of the Raw Product Input model:
\* it returns a record, in which a list given as a comma-separated string is
\* its pieces and a concentration or price given as a number is that number.
C21_EveryAllowedShapeAccepted ==
    (call.fn = "parse" /\ RawProductInput(call.input)) =>
        /\ call.out.ok
        /\ \A k \in {"concentration", "price"} :
               call.input.v[k].t = "num" => call.out.value[k] = call.input.v[k].v
        /\ call.input.v.skin_type.t = "str" =>
               call.out.value.skin_type = StripKeepNonEmpty(split(call.input.v.skin_type.v, ","))

\* one of the characters _extract_price removes stands directly after a digit
\* or a decimal point
SeparatorInNumber(text) ==
    \E i \in 2..Len(text) :
        /\ text[i] \in {Rupee, "$", "EUR", "GBP", ",", " ", "\t", "\n"}
        /\ text[i - 1] \in {"0", "1", "2", "3", "4", "5", "6", "7", "8", "9", "."}

\* C22 (as claimed): one rule for both extractors: currency symbols, commas and
\* whitespace are stripped first, then the first number is parsed; the two
\* return the same value for the same string.
C22_OneRuleForBoth ==
    call.fn = "extract" =>
        /\ call.concentration = call.price
        /\ call.text = <<Rupee, "1", ",", "2", "9", "9">> => call.concentration = 129900

\* C22 (amended): both extractors return the first integer-or-decimal substring
\* of the text they search (0.0 when it has no digit, later numbers ignored);
\* _extract_price searches the text without its currency symbols, commas and
\* whitespace, _extract_concentration the text as it is. They return the same
\* value unless such a character directly follows a digit or a decimal point.
C22_ExtractionRules ==
    call.fn = "extract" =>
        LET s == call.text
        IN /\ HasNoDigit(s) => (call.concentration = 0 /\ call.price = 0)
           /\ ~SeparatorInNumber(s) => call.concentration = call.price
           /\ call.price = _extract_concentration(Str(RemoveChars(s, CurrencyAndSeparators)))
           /\ s = <<Rupee, "1", ",", "2", "9", "9">> =>
                  (call.price = 129900 /\ call.concentration = 100)
           /\ s = <<"$", "2", "9", ".", "9", "9">> =>
                  (call.price = 2999 /\ call.concentration = 2999)
           /\ s = <<"1", "5", ".", "5", "%", " ", "A", "c", "t", "i", "v", "e">> =>
                  (call.price = 1550 /\ call.concentration = 1550)
           /\ Len(s) = 29 => (call.price = 1000 /\ call.concentration = 1000)
           /\ s = <<"1", ",", "2", "9", "9">> =>
                  (call.price = 129900 /\ call.concentration = 100)
           /\ s = <<>> => (call.price = 0 /\ call.concentration = 0)

C22_Witness ==
    /\ call.fn = "extract"
    /\ call.text = <<"1", ",", "5", "5">>
    /\ call.concentration = 100
    /\ call.price = 15500

\* the pieces joined by commas
RECURSIVE JoinByComma(_)
JoinByComma(pieces) ==
    IF Len(pieces) = 1 THEN pieces[1]
    ELSE pieces[1] \o <<",">> \o JoinByComma(Tail(pieces))

\* pieces are the comma-separated pieces of text
IsCommaSplit(pieces, text) ==
    /\ Len(pieces) = Cardinality({i \in DOMAIN text : text[i] = ","}) + 1
    /\ \A i \in DOMAIN pieces : \A j \in DOMAIN pieces[i] : pieces[i][j] # ","
    /\ JoinByComma(pieces) = text

\* the items trimmed, without those that are empty after trimming, in order
TrimmedNonEmpty(items) ==
    SelectSeq([i \in DOMAIN items |-> strip(items[i])], LAMBDA item : item # <<>>)

\* C23: _normalize_array gives, for a list of strings, its items trimmed,
\* without the items empty after trimming, order and duplicates kept; for a
\* string, its comma-separated pieces treated the same way; for a value of
\* another type, the empty list. No element of the result is empty or has
\* leading or trailing whitespace.
C23_ListNormalization ==
    call.fn = "_normalize_array" =>
        /\ \A i \in DOMAIN call.out : call.out[i] # <<>> /\ Trimmed(call.out[i])
        /\ call.value.t = "arr" =>
               call.out = TrimmedNonEmpty([i \in DOMAIN call.value.v |-> call.value.v[i].v])
        /\ call.value.t = "str" =>
               LET text == call.value.v
                   commas == {i \in DOMAIN text : text[i] = ","}
                   n == Cardinality(commas) + 1
                   \* the position of the k-th comma; 0 and Len + 1 bound the text
                   at(k) == IF k = 0 THEN 0
                            ELSE IF k = n THEN Len(text) + 1
                            ELSE CHOOSE p \in commas :
                                     Cardinality({j \in commas : j < p}) = k - 1
                   pieces == [i \in 1..n |-> SubSeq(text, at(i - 1) + 1, at(i) - 1)]
               IN /\ IsCommaSplit(pieces, text)
                  /\ call.out = TrimmedNonEmpty(pieces)
        /\ call.value.t \notin {"arr", "str"} => call.out = <<>>

C23_Witness ==
    /\ call.fn = "_normalize_array"
    /\ call.value.t = "arr"
    /\ Len(call.value.v) = 3
    /\ call.value.v[1].v = <<" ", "a", "\t">>
    /\ call.out = <<<<"a">>, <<"a">>>>

\* compare_products was called and returned a result
Compared == call.fn = "compare_products" /\ call.out.ok

\* the number of items of a list field the product was given with
GivenCount(product, key) == IF key \in DOMAIN product THEN Len(product[key].v) ELSE 0

\* the items of a list field the product was given with, lowercased
GivenLowered(product, key) ==
    IF key \in DOMAIN product
    THEN {lower(product[key].v[i].v) : i \in DOMAIN product[key].v}
    ELSE {}

\* is the product's price the number n (in hundredths)
PriceIs(product, n) ==
    "price" \in DOMAIN product /\ product.price.t = "num" /\ product.price.v = n

OnePoint(scored) == IF scored THEN 1 ELSE 0

\* C24: for every pair of (non-negative) prices, difference is their absolute
\* difference; percentage_difference is the difference relative to the larger
\* price, to one decimal, and 0 when both prices are 0; cheaper_option names
\* the strictly lower-priced side; with equal prices cheaper_option is None and
\* neither side gets the price point.
C24_PriceDimension ==
    Compared =>
        LET price == call.out.value.dimensions.price
            scores == call.out.value.scores
            price_a == price.product_a.price
            price_b == price.product_b.price
            larger == IF price_a >= price_b THEN price_a ELSE price_b
            deviation == price.percentage_difference * larger - price.difference * 1000
            count_points_a ==
                OnePoint(GivenCount(call.given_a, "ingredients") > GivenCount(call.given_b, "ingredients"))
                + OnePoint(GivenCount(call.given_a, "benefits") > GivenCount(call.given_b, "benefits"))
            count_points_b ==
                OnePoint(GivenCount(call.given_b, "ingredients") > GivenCount(call.given_a, "ingredients"))
                + OnePoint(GivenCount(call.given_b, "benefits") > GivenCount(call.given_a, "benefits"))
        IN /\ \A n \in {0, 39900, 40000, 59900, 69900} :
                 /\ PriceIs(call.given_a, n) => price_a = n
                 /\ PriceIs(call.given_b, n) => price_b = n
           /\ "price" \notin DOMAIN call.given_a => price_a = 0
           /\ (price_a >= 0 /\ price_b >= 0) =>
                 /\ price.difference >= 0
                 /\ price.difference \in {price_a - price_b, price_b - price_a}
                 /\ larger = 0 => price.percentage_difference = 0
                 /\ larger > 0 => (2 * deviation <= larger /\ -2 * deviation <= larger)
                 /\ price.cheaper_option = "product_a" <=> price_a < price_b
                 /\ price.cheaper_option = "product_b" <=> price_b < price_a
                 /\ price.cheaper_option = "None" <=> price_a = price_b
                 /\ scores.product_a_score = count_points_a + OnePoint(price_a < price_b)
                 /\ scores.product_b_score = count_points_b + OnePoint(price_b < price_a)

C24_Witness ==
    /\ Compared
    /\ PriceIs(call.given_a, 39900)
    /\ PriceIs(call.given_b, 40000)
    /\ call.out.value.dimensions.price.difference = 100
    /\ call.out.value.dimensions.price.percentage_difference = 3
    /\ call.out.value.dimensions.price.cheaper_option = "product_a"

\* C25 (as claimed): prices 699 and 599 give difference 100, percentage
\* difference 16.7, cheaper option product B and the price point to product B.
C25_SamplePrices167 ==
    (Compared /\ PriceIs(call.given_a, 69900) /\ PriceIs(call.given_b, 59900)) =>
        /\ call.out.value.dimensions.price.difference = 10000
        /\ call.out.value.dimensions.price.percentage_difference = 167
        /\ call.out.value.dimensions.price.cheaper_option = "product_b"

\* C25 (amended): prices 699 and 599 give difference 100, percentage
\* difference 14.3 (100 of the larger price 699), cheaper option product B and
\* the price point to product B.
C25_SamplePrices ==
    (Compared /\ PriceIs(call.given_a, 69900) /\ PriceIs(call.given_b, 59900)) =>
        /\ call.out.value.dimensions.price.difference = 10000
        /\ call.out.value.dimensions.price.percentage_difference = 143
        /\ call.out.value.dimensions.price.cheaper_option = "product_b"
        /\ call.out.value.scores.product_b_score =
               1 + OnePoint(GivenCount(call.given_b, "ingredients") > GivenCount(call.given_a, "ingredients"))
                 + OnePoint(GivenCount(call.given_b, "benefits") > GivenCount(call.given_a, "benefits"))
        /\ call.out.value.scores.product_a_score =
               OnePoint(GivenCount(call.given_a, "ingredients") > GivenCount(call.given_b, "ingredients"))
               + OnePoint(GivenCount(call.given_a, "benefits") > GivenCount(call.given_b, "benefits"))

\* the standalone run's call: both sample products as they are written
C25_Witness ==
    /\ Compared
    /\ PriceIs(call.given_a, 69900)
    /\ PriceIs(call.given_b, 59900)
    /\ DOMAIN call.given_a = DOMAIN sample_product_a
    /\ DOMAIN call.given_b = DOMAIN sample_product_b
    /\ GivenCount(call.given_a, "ingredients") = 2
    /\ GivenCount(call.given_b, "ingredients") = 3
    /\ call.out.value.scores.product_a_score = 0
    /\ call.out.value.scores.product_b_score = 3
    /\ call.out.value.scores.winner = "product_b"

\* C26: each of the three dimensions (ingredients count, benefits count, price)
\* gives one point to the side with the larger count or the lower price and
\* none on a tie, so the scores sum to at most 3; the skin types do not enter
\* the scores; the winner is product_a exactly when its score is higher,
\* product_b exactly when its score is higher, and "tie" exactly when the
\* scores are equal.
C26_Scoring ==
    Compared =>
        LET scores == call.out.value.scores
            price == call.out.value.dimensions.price
            ingredients_a == GivenCount(call.given_a, "ingredients")
            ingredients_b == GivenCount(call.given_b, "ingredients")
            benefits_a == GivenCount(call.given_a, "benefits")
            benefits_b == GivenCount(call.given_b, "benefits")
        IN /\ scores.product_a_score =
                 OnePoint(ingredients_a > ingredients_b) + OnePoint(benefits_a > benefits_b)
                 + OnePoint(price.product_a.price < price.product_b.price)
           /\ scores.product_b_score =
                 OnePoint(ingredients_b > ingredients_a) + OnePoint(benefits_b > benefits_a)
                 + OnePoint(price.product_b.price < price.product_a.price)
           /\ scores.product_a_score + scores.product_b_score <= 3
           /\ scores.winner \in {"product_a", "product_b", "tie"}
           /\ scores.winner = "product_a" <=> scores.product_a_score > scores.product_b_score
           /\ scores.winner = "product_b" <=> scores.product_b_score > scores.product_a_score
           /\ scores.winner = "tie" <=> scores.product_a_score = scores.product_b_score

\* product A leads on ingredients and benefits, product B on price
C26_Witness ==
    /\ Compared
    /\ GivenCount(call.given_a, "ingredients") > GivenCount(call.given_b, "ingredients")
    /\ GivenCount(call.given_a, "benefits") > GivenCount(call.given_b, "benefits")
    /\ call.out.value.dimensions.price.cheaper_option = "product_b"
    /\ call.out.value.dimensions.skin_type.common_skin_types = {}
    /\ call.out.value.scores.product_a_score = 2
    /\ call.out.value.scores.product_b_score = 1
    /\ call.out.value.scores.winner = "product_a"

\* C27: with A' and B' the lowercased item sets of the two products, the
\* ingredients dimension and the benefits dimension each give common = A' \cap
\* B', unique_to_a = A' \ B' and unique_to_b = B' \ A': three pairwise
\* disjoint sets that cover A' \cup B'.
C27_SetAlgebra ==
    Compared =>
        \A key \in {"ingredients", "benefits"} :
            LET dimension == call.out.value.dimensions[key]
                common == IF key = "ingredients" THEN dimension.common_ingredients
                          ELSE dimension.common_benefits
                lowered_a == GivenLowered(call.given_a, key)
                lowered_b == GivenLowered(call.given_b, key)
            IN /\ common = lowered_a \cap lowered_b
               /\ dimension.unique_to_a = lowered_a \ lowered_b
               /\ dimension.unique_to_b = lowered_b \ lowered_a
               /\ common \cap dimension.unique_to_a = {}
               /\ common \cap dimension.unique_to_b = {}
               /\ dimension.unique_to_a \cap dimension.unique_to_b = {}
               /\ common \cup dimension.unique_to_a \cup dimension.unique_to_b
                      = lowered_a \cup lowered_b

\* the same ingredient written in different cases on the two sides
C27_Witness ==
    /\ Compared
    /\ GivenCount(call.given_a, "ingredients") = 3
    /\ GivenCount(call.given_b, "ingredients") = 1
    /\ call.given_b.ingredients.v[1].v = <<"Z", "i", "n", "c">>
    /\ call.out.value.dimensions.ingredients.common_ingredients = {<<"z", "i", "n", "c">>}
    /\ call.out.value.dimensions.ingredients.unique_to_a = {<<"v", "i", "t", " ", "c">>}
    /\ call.out.value.dimensions.ingredients.unique_to_b = {}

\* every field the product was given with has a value of its type
OnlyMissingFields(product) ==
    \A key \in DOMAIN product \cap {"ingredients", "benefits", "skin_type"} :
        IsStringArray(product[key])

\* C28: for every pair of products of which any fields are missing,
\* compare_products returns a result and does not raise (a missing name is
\* "Product A" / "Product B", a missing list is empty, a missing price is 0, a
\* missing concentration is "N/A"), and both arguments are afterwards as they
\* were given.
C28_NoFailureAndPure ==
    (call.fn = "compare_products" /\ OnlyMissingFields(call.given_a)
     /\ OnlyMissingFields(call.given_b)) =>
        /\ call.out.ok
        /\ call.product_a = call.given_a
        /\ call.product_b = call.given_b
        /\ call.out.value.type = "comparison"
        /\ "name" \notin DOMAIN call.given_a =>
               call.out.value.products.product_a.v = <<"P", "r", "o", "d", "u", "c", "t", " ", "A">>
        /\ "name" \notin DOMAIN call.given_b =>
               call.out.value.products.product_b.v = <<"P", "r", "o", "d", "u", "c", "t", " ", "B">>
        /\ "name" \in DOMAIN call.given_a =>
               call.out.value.products.product_a = call.given_a.name
        /\ "ingredients" \notin DOMAIN call.given_a =>
               /\ call.out.value.dimensions.ingredients.product_a.count = 0
               /\ call.out.value.dimensions.ingredients.common_ingredients = {}
        /\ "benefits" \notin DOMAIN call.given_b =>
               call.out.value.dimensions.benefits.product_b.count = 0
        /\ "skin_type" \notin DOMAIN call.given_a =>
               call.out.value.dimensions.skin_type.product_a = <<>>
        /\ "price" \notin DOMAIN call.given_b =>
               call.out.value.dimensions.price.product_b.price = 0
        /\ "concentration" \notin DOMAIN call.given_a =>
               call.out.value.dimensions.ingredients.product_a.concentration.v = <<"N", "/", "A">>

\* both products are given without any field
C28_Witness ==
    /\ call.fn = "compare_products"
    /\ DOMAIN call.given_a = {}
    /\ DOMAIN call.given_b = {}
    /\ call.out.ok
    /\ call.out.value.scores.winner = "tie"
    /\ call.out.value.dimensions.price.cheaper_option = "None"

\* a step in which a stage (or the writing of the outputs) raises
StageRaises == raised_in = 0 /\ raised_in' # 0

C29_RaisingLeavesState ==
    /\ StageRaises => (state' = state /\ assigned' = assigned)
    /\ pc' = "llm" => state' = state

C29_NothingFromFailedStage ==
    /\ pc = "llm" => AssignmentsBy(stage_num) = {}
    /\ Failed => AssignmentsBy(raised_in) = {}

\* C29: a step in which a stage raises (from the LLM call, the parsing of the
\* answer, a minimum-count check or validation) changes no field of the
\* pipeline state, and neither does a step that leaves the stage waiting for an
\* answer: the stage's own field and every other field hold, when the stage has
\* raised, the values they had when it started, and the failed stage has
\* assigned nothing.
C29_StateUnchangedOnFailure == [][C29_RaisingLeavesState]_vars /\ []C29_NothingFromFailedStage

\* stage 7 raises on its second answer, after product B was built
C29_Witness ==
    /\ Failed
    /\ raised_in = 7
    /\ Len(llm_calls) = 5
    /\ llm_calls[4].answered
    /\ state.comparison_page = NULL
    /\ state.product_page # NULL

\* the answer to the i-th call of the run, as the agent received it
ReplyTo(i) == Answer(llm_calls[i].response)

\* the pages of the stages that returned, built at the time T from the
\* canonical record and the answers alone
PagesBuiltAt(T) ==
    /\ 5 \in Range(finished) =>
           state.faq_page =
               FAQPageAgent_generate(state.parsed_product, state.questions, ReplyTo(2),
                                     T[1]).value
    /\ 6 \in Range(finished) =>
           state.product_page =
               ProductPageAgent_generate(state.parsed_product, ReplyTo(3), T[2]).value
    /\ 7 \in Range(finished) =>
           state.comparison_page =
               ComparisonAgent_generate(
                   state.parsed_product,
                   _generate_product_b(state.parsed_product, ReplyTo(4)).value,
                   ReplyTo(5), T[3]).value

\* no stage reads content_blocks, the comparison block is never called, and the
\* files written hold the three pages
ContentBlocksUnread ==
    /\ \A r \in reads : r.field \in {"parsed_product", "questions"}
    /\ call.fn = "none"
    /\ \A i \in DOMAIN written : written[i].data = outputs[i].data

====
